---- MODULE Spec2Model ----
(***************************************************************************)
(* Model of the merge core of the movie indexing pipeline:                 *)
(*   src/src/scene_master_merger.py  (conservative merge, master build)    *)
(*   src/src/scene_fusion.py         (confidence-aware fusion)             *)
(*   src/src/scene_schema.py         (schema validator)                    *)
(*                                                                         *)
(* JSON values are tagged records, so that values of different Python      *)
(* types are never confused:                                               *)
(*   None -> [t |-> "null"]          str  -> [t |-> "str",  s |-> ...]     *)
(*   int  -> [t |-> "num", n |-> ..] bool -> [t |-> "bool", b |-> ...]     *)
(*   list -> [t |-> "list", l |-> <<...>>]                                 *)
(*   dict -> [t |-> "dict", d |-> [key |-> value]]                         *)
(* A scene record (a Python dict) is a function from field names to        *)
(* values; a key that is absent from the dict is absent from the DOMAIN.   *)
(* A fragment (a parsed JSON object) is a sequence of <<key, value>>       *)
(* pairs in file order, which is the order src.items() iterates in.        *)
(***************************************************************************)
EXTENDS Integers, Sequences, FiniteSets, TLC

VARIABLES
    \* ---- conservative merge of one scene (merge_scene) ----
    target,      \* the dict merge_scene mutates
    mprev,       \* the target before the last merge_scene call
    msrc,        \* the fragment of the last merge_scene call
    mraised,     \* TRUE when the last merge_scene call raised
    nmerge,      \* number of merge_scene calls so far
    \* ---- master merge build (scene_master_merger.main) ----
    timings,     \* movie -> scene timing table (outputs/scenes/{movie}_scenes.json) or NoFile
    folders,     \* <<phase, dir>> -> the .json files of that folder, in os.listdir order
    outputs,     \* output path -> content of the file, for the files that exist
    clock,       \* number of builds started; the wall clock of the timestamps
    lastBuilt,   \* the movie of the last build, or NoneMovie
    schemaStrict, \* the environment variable SCHEMA_STRICT is on
    lastStatus,  \* "none", "ok" (main returned) or "error" (main raised)
    prevOutputs, \* the output files as they were before the last build
    fresh,       \* movies built since their inputs last changed
    stable,      \* TRUE when the last build re-ran a movie on unchanged inputs
    \* ---- fusion (scene_fusion.merge_scenes_from_sources) ----
    fsources,    \* the contributions collected for one scene, in input order
    fused,       \* the result of fusing them, or NotFused
    fusedAgain,  \* the result of a second call on the same list, or NotFused
    \* ---- schema validation (scene_schema) ----
    vscene,      \* the value handed to the validator, or NoScene
    vout,        \* the outcome of validate_scene(vscene), or NotRun
    eout,        \* the outcome of enforce_scene(vscene), or NotRun
    \* ---- the final schema check of main ----
    lastCheck,   \* what the schema check of the last build did
    \* ---- scene ids of one fragment file (load_folder_as_map) ----
    fragMovie,   \* the movie the fragment is written for, or NoneMovie
    fragLocal,   \* the local scene id of the fragment
    fragFile,    \* the fragment file, or NoFile
    fragMap,     \* the phase map loaded from the file for fragMovie, or NoMap
    \* ---- orchestrator (run_pipeline) ----
    artifacts,   \* the output files and folders that exist
    pmovie,      \* the movie of the pipeline run, or NoneMovie
    ran,         \* the steps the run has run so far, in order
    forced,      \* TRUE when the run was started with --force
    nruns        \* the number of runs started

mvars == <<target, mprev, msrc, mraised, nmerge>>
bvars == <<timings, folders, outputs, clock, lastBuilt, schemaStrict, lastStatus,
           prevOutputs, fresh, stable, lastCheck>>
fvars == <<fsources, fused, fusedAgain>>
svars == <<vscene, vout, eout>>
ivars == <<fragMovie, fragLocal, fragFile, fragMap>>
pvars == <<artifacts, pmovie, ran, forced, nruns>>
vars == <<mvars, bvars, fvars, svars, ivars, pvars>>

(***************************************************************************)
(* Bounds                                                                  *)
(***************************************************************************)
MaxMerges == 3
MaxFiles == 2
MaxBuilds == 3
MaxSources == 3
MaxRuns == 2

(***************************************************************************)
(* JSON values                                                             *)
(***************************************************************************)
Null == [t |-> "null"]
S(x) == [t |-> "str", s |-> x]
N(x) == [t |-> "num", n |-> x]
B(x) == [t |-> "bool", b |-> x]
L(x) == [t |-> "list", l |-> x]
D(x) == [t |-> "dict", d |-> x]

EmptyDict == [k \in {} |-> Null]

\* Python truthiness: `not v` is true for None, "", 0, False, [] and {}.
Falsy(v) ==
    CASE v.t = "null" -> TRUE
      [] v.t = "str"  -> v.s = ""
      [] v.t = "num"  -> v.n = 0
      [] v.t = "bool" -> ~v.b
      [] v.t = "list" -> v.l = <<>>
      [] v.t = "dict" -> DOMAIN v.d = {}

\* The characters of the strings that occur as field values; iterating a
\* Python str yields its one-character substrings.
Chars(s) ==
    CASE s = ""   -> <<>>
      [] s = "a"  -> <<"a">>
      [] s = "1"  -> <<"1">>
      [] s = "bc" -> <<"b", "c">>
      [] s = "t1" -> <<"t", "1">>
      [] s = "t2" -> <<"t", "2">>
      [] s = "t3" -> <<"t", "3">>
      [] s = "t4" -> <<"t", "4">>
      [] s = "t5" -> <<"t", "5">>
      [] OTHER    -> <<s>>

\* str(n) for the integers of the model.
NumStr(n) ==
    CASE n = 0 -> "0"
      [] n = 1 -> "1"
      [] n = 2 -> "2"
      [] n = 3 -> "3"
      [] n = 4 -> "4"
      [] n = 5 -> "5"
      [] OTHER -> "n"

\* Keys of a dict in iteration order (the model keeps dict keys sorted).
KeyRank(k) ==
    CASE k = "a" -> 1
      [] k = "b" -> 2
      [] k = "name" -> 3
      [] k = "type" -> 4
      [] OTHER -> 5

RECURSIVE SortedKeys(_)
SortedKeys(ks) ==
    IF ks = {} THEN <<>>
    ELSE LET m == CHOOSE x \in ks : \A y \in ks : KeyRank(x) <= KeyRank(y)
         IN  <<m>> \o SortedKeys(ks \ {m})

\* key_of(item): json.dumps(item, sort_keys=True) for a dict, str(item)
\* otherwise.  A string key is [k |-> "s"], a JSON text is [k |-> "j"]; the
\* JSON text of a dict is determined by the dict, so the dict stands for it.
key_of(item) ==
    CASE item.t = "dict" -> [k |-> "j", j |-> item.d]
      [] item.t = "str"  -> [k |-> "s", s |-> item.s]
      [] item.t = "num"  -> [k |-> "s", s |-> NumStr(item.n)]
      [] item.t = "bool" -> [k |-> "s", s |-> IF item.b THEN "True" ELSE "False"]
      [] item.t = "null" -> [k |-> "s", s |-> "None"]
      [] item.t = "list" -> [k |-> "r", r |-> item.l]

\* `for item in existing`: what iterating a truthy value yields, or a
\* TypeError for a number or a boolean.
Iterable(v) == v.t \in {"list", "str", "dict"}

IterItems(v) ==
    CASE v.t = "list" -> v.l
      [] v.t = "str"  -> [i \in 1..Len(Chars(v.s)) |-> S(Chars(v.s)[i])]
      [] v.t = "dict" -> [i \in 1..Len(SortedKeys(DOMAIN v.d)) |-> S(SortedKeys(DOMAIN v.d)[i])]

\* The second loop of the list branch: append the items of v whose key has
\* not been seen.
RECURSIVE AppendMissing(_, _, _)
AppendMissing(out, seen, v) ==
    IF v = <<>> THEN out
    ELSE LET kitem == key_of(Head(v))
         IN  IF kitem \in seen
             THEN AppendMissing(out, seen, Tail(v))
             ELSE AppendMissing(Append(out, Head(v)), seen \cup {kitem}, Tail(v))

\* dict(existing) for a truthy existing: a copy of a dict; for a list, a
\* dict built from its items taken as key/value pairs, which needs every
\* item to be a sequence of length 2 (here: a two-character string or a
\* dict of two keys); a ValueError or TypeError for anything else.
PairLike(item) ==
    \/ item.t = "str" /\ Len(Chars(item.s)) = 2
    \/ item.t = "dict" /\ Cardinality(DOMAIN item.d) = 2
    \/ item.t = "list" /\ Len(item.l) = 2 /\ item.l[1].t = "str"

PairKey(item) ==
    CASE item.t = "str"  -> Chars(item.s)[1]
      [] item.t = "dict" -> SortedKeys(DOMAIN item.d)[1]
      [] item.t = "list" -> item.l[1].s

PairVal(item) ==
    CASE item.t = "str"  -> S(Chars(item.s)[2])
      [] item.t = "dict" -> S(SortedKeys(DOMAIN item.d)[2])
      [] item.t = "list" -> item.l[2]

DictCopyOk(existing) ==
    \/ existing.t = "dict"
    \/ existing.t = "list" /\ \A i \in 1..Len(existing.l) : PairLike(existing.l[i])

DictCopy(existing) ==
    IF existing.t = "dict" THEN existing.d
    ELSE LET ks == {PairKey(existing.l[i]) : i \in 1..Len(existing.l)}
         IN  [k \in ks |->
                 LET last == CHOOSE i \in 1..Len(existing.l) :
                                 /\ PairKey(existing.l[i]) = k
                                 /\ \A j \in (i+1)..Len(existing.l) : PairKey(existing.l[j]) # k
                 IN  PairVal(existing.l[last])]

\* merged = dict(existing); add the sub-keys of v that are missing or None.
ShallowMerge(merged, v) ==
    [k \in DOMAIN merged \cup DOMAIN v |->
        IF k \in DOMAIN v /\ (k \notin DOMAIN merged \/ merged[k] = Null)
        THEN v[k] ELSE merged[k]]

IDENTITY_KEYS == {"scene_id", "movie_id"}

\* target[k] = x
SetKey(tgt, k, x) == [f \in DOMAIN tgt \cup {k} |-> IF f = k THEN x ELSE tgt[f]]

\* One iteration of the loop of merge_scene, for the pair (k, v) of the
\* fragment.  Yields the target after the iteration and whether it raised.
MergeField(tgt, k, v) ==
    LET existing == IF k \in DOMAIN tgt THEN tgt[k] ELSE Null
        same     == [ok |-> TRUE, tgt |-> tgt]
        raise    == [ok |-> FALSE, tgt |-> tgt]
        set(x)   == [ok |-> TRUE, tgt |-> SetKey(tgt, k, x)]
    IN  IF k \in IDENTITY_KEYS THEN same
        ELSE CASE v.t = "list" ->
                    IF Falsy(existing) THEN set(v)
                    ELSE IF ~Iterable(existing) THEN raise
                    ELSE LET items == IterItems(existing)
                             seen  == {key_of(items[i]) : i \in 1..Len(items)}
                         IN  set(L(AppendMissing(items, seen, v.l)))
               [] v.t = "dict" ->
                    IF Falsy(existing) THEN set(v)
                    ELSE IF ~DictCopyOk(existing) THEN raise
                    ELSE set(D(ShallowMerge(DictCopy(existing), v.d)))
               [] v.t = "str" ->
                    IF Falsy(existing) THEN set(v) ELSE same
               [] v.t \in {"num", "bool"} ->
                    IF existing = Null THEN set(v) ELSE same
               [] OTHER ->
                    IF k \notin DOMAIN tgt THEN set(v) ELSE same

\* merge_scene(target, src): the loop over src.items(); an exception ends
\* the loop and leaves the mutations made so far in the target.
RECURSIVE merge_scene(_, _)
merge_scene(tgt, src) ==
    IF src = <<>> THEN [ok |-> TRUE, tgt |-> tgt]
    ELSE LET r == MergeField(tgt, Head(src)[1], Head(src)[2])
         IN  IF r.ok THEN merge_scene(r.tgt, Tail(src)) ELSE r

(***************************************************************************)
(* empty_scene_template and the timing fields                              *)
(***************************************************************************)
\* datetime.utcnow().isoformat() at clock value c: a non-empty string that
\* differs from run to run.
Timestamp(c) ==
    CASE c = 1 -> "t1"
      [] c = 2 -> "t2"
      [] c = 3 -> "t3"
      [] c = 4 -> "t4"
      [] OTHER -> "t5"

TemplateStrFields ==
    {"scene_summary", "scene_type", "scene_category_secondary", "scene_priority",
     "location", "time_of_day", "indoor_outdoor", "resolution", "camera_movement",
     "lighting_style", "color_tone", "shot_type", "ai_model_version", "notes"}

TemplateListFields ==
    {"characters", "character_dominance_ranking", "dialogue_text", "objects",
     "actions", "background_activity"}

TemplateNoneFields ==
    {"movie_id", "title_name", "start_time", "end_time", "duration",
     "importance_score", "scene_priority_score", "viewer_attention_score",
     "key_plot_point", "dialogue_speed_wpm", "audio_clarity_score",
     "profanity_present", "aspect_ratio", "motion_intensity_score",
     "emotion_arousal_score", "emotion_scene_variation_score",
     "audio_activity_score", "vfx_presence", "cg_characters_present",
     "ai_confidence_score"}

TemplateFields ==
    {"scene_id", "metadata_generated_at"} \cup TemplateStrFields
        \cup TemplateListFields \cup TemplateNoneFields

\* A template that also writes the time of the run into the notes.
empty_scene_template_dated(scene_id, now) ==
    [f \in TemplateFields |->
        CASE f = "scene_id" -> S(scene_id)
          [] f \in {"metadata_generated_at", "notes"} -> S(Timestamp(now))
          [] f \in TemplateStrFields -> S("")
          [] f \in TemplateListFields -> L(<<>>)
          [] OTHER -> Null]

empty_scene_template(scene_id, now) ==
    [f \in TemplateFields |->
        CASE f = "scene_id" -> S(scene_id)
          [] f = "metadata_generated_at" -> S(Timestamp(now))
          [] f \in TemplateStrFields -> S("")
          [] f \in TemplateListFields -> L(<<>>)
          [] OTHER -> Null]

\* scene.update(scene_timings[local_sid])
TimingFields == {"start_time", "end_time", "duration"}

UpdateTiming(scene, timing) ==
    [f \in DOMAIN scene \cup TimingFields |->
        IF f \in TimingFields THEN timing[f] ELSE scene[f]]

(***************************************************************************)
(* Strings of the model: scene ids, file stems and movie names.  A string  *)
(* is known by its "_"-separated tokens (str.split("_")) and by its rank   *)
(* in Python's string order.                                               *)
(***************************************************************************)
Movies == {"A", "B"}

\* file_movie = None
NoneMovie == "<None>"

NoFile == [kind |-> "nofile"]

\* no phase map has been loaded
NoMap == [kind |-> "nomap"]

IdStrings ==
    {"A", "B", "A_B", "frag", "scene_0001", "scene_0002", "scene_0010",
     "A_scene_0001", "A_scene_0002", "A_scene_0010",
     "B_scene_0001", "B_scene_0002", "B_scene_0010",
     "A_B_scene_0001", "A_B_scene_0002", "A_B_scene_0010"}

Tokens(s) ==
    CASE s = "scene_0001"   -> <<"scene", "0001">>
      [] s = "scene_0002"   -> <<"scene", "0002">>
      [] s = "scene_0010"   -> <<"scene", "0010">>
      [] s = "A_scene_0001" -> <<"A", "scene", "0001">>
      [] s = "A_scene_0002" -> <<"A", "scene", "0002">>
      [] s = "B_scene_0001" -> <<"B", "scene", "0001">>
      [] s = "B_scene_0002" -> <<"B", "scene", "0002">>
      [] s = "A_scene_0010" -> <<"A", "scene", "0010">>
      [] s = "B_scene_0010" -> <<"B", "scene", "0010">>
      [] s = "A_B"            -> <<"A", "B">>
      [] s = "A_B_scene_0001" -> <<"A", "B", "scene", "0001">>
      [] s = "A_B_scene_0002" -> <<"A", "B", "scene", "0002">>
      [] s = "A_B_scene_0010" -> <<"A", "B", "scene", "0010">>
      [] OTHER              -> <<s>>

\* "_".join(tokens)
Join(tk) == CHOOSE s \in IdStrings : Tokens(s) = tk

\* Rank of a scene id in Python's string order (sorted()).
StrRank(s) ==
    CASE s = "A_B_scene_0001" -> 1
      [] s = "A_B_scene_0002" -> 2
      [] s = "A_B_scene_0010" -> 3
      [] s = "A_scene_0001" -> 4
      [] s = "A_scene_0002" -> 5
      [] s = "A_scene_0010" -> 6
      [] s = "B_scene_0001" -> 7
      [] s = "B_scene_0002" -> 8
      [] s = "B_scene_0010" -> 9
      [] s = "scene_0001"   -> 10
      [] s = "scene_0002"   -> 11
      [] s = "scene_0010"   -> 12
      [] OTHER              -> 13

RECURSIVE sorted(_)
sorted(ids) ==
    IF ids = {} THEN <<>>
    ELSE LET m == CHOOSE x \in ids : \A y \in ids : StrRank(x) <= StrRank(y)
         IN  <<m>> \o sorted(ids \ {m})

\* s.startswith(prefix), for the strings of the model: no token of a
\* movie name is a proper prefix of another token.
StartsWith(s, prefix) ==
    /\ Len(Tokens(prefix)) <= Len(Tokens(s))
    /\ SubSeq(Tokens(s), 1, Len(Tokens(prefix))) = Tokens(prefix)

\* normalize_scene_id: the id prefixed with the movie name
normalize_scene_id(scene_id, movie) ==
    IF StartsWith(scene_id, movie) THEN scene_id
    ELSE Join(Tokens(movie) \o Tokens(scene_id))

\* obj.get(k) on a parsed JSON object
ObjGet(obj, k) ==
    IF \E i \in 1..Len(obj) : obj[i][1] = k
    THEN obj[CHOOSE i \in 1..Len(obj) : obj[i][1] = k][2]
    ELSE Null

(***************************************************************************)
(* load_scene_timings                                                      *)
(***************************************************************************)
\* The "scenes" list of a timing table whose scenes carry the given ids:
\* scene i starts at i-1 and lasts 1.
Table(ids) ==
    [kind |-> "table",
     scenes |-> [i \in 1..Len(ids) |->
                    [scene_id |-> ids[i], start_time |-> N(i - 1),
                     end_time |-> N(i), duration |-> N(1)]]]

TableIds(tbl) == {tbl[i].scene_id : i \in 1..Len(tbl)}

load_scene_timings(file) ==
    IF file = NoFile THEN [sid \in {} |-> Null]
    ELSE LET tbl == file.scenes
         IN  [sid \in TableIds(tbl) |->
                 LET last == CHOOSE i \in 1..Len(tbl) :
                                 /\ tbl[i].scene_id = sid
                                 /\ \A j \in (i+1)..Len(tbl) : tbl[j].scene_id # sid
                 IN  [f \in TimingFields |-> tbl[last][f]]]

(***************************************************************************)
(* load_folder_as_map                                                      *)
(***************************************************************************)
PHASES == <<"segments", "actors", "visuals", "objects", "context", "dialogue",
            "emotion", "speakers">>

PhaseSet == {PHASES[i] : i \in 1..Len(PHASES)}

Dirs == {"root"} \cup Movies

\* stem.split("_scene_")[0] when "_scene_" occurs in the stem
StemMovie(stem) ==
    LET tk  == Tokens(stem)
        idx == {i \in 2..(Len(tk) - 1) : tk[i] = "scene"}
    IN  IF idx = {} THEN NoneMovie
        ELSE Join(SubSeq(tk, 1, (CHOOSE i \in idx : \A j \in idx : i <= j) - 1))

\* A file_movie taken from the filename alone.
FileMovieByName(file) == StemMovie(file.stem)

\* file_movie: the filename prefix, overridden by the movie_id of the
\* document or of its first list item
FileMovie(file) ==
    LET c == file.content
    IN  IF c.kind = "dict" /\ ~Falsy(ObjGet(c.obj, "movie_id"))
        THEN ObjGet(c.obj, "movie_id").s
        ELSE IF /\ c.kind = "list"
                /\ c.items # <<>>
                /\ c.items[1].isdict
                /\ ~Falsy(ObjGet(c.items[1].obj, "movie_id"))
        THEN ObjGet(c.items[1].obj, "movie_id").s
        ELSE StemMovie(file.stem)

local_sid(raw_sid, file_movie) ==
    LET tk == Tokens(raw_sid)
    IN  IF Len(tk) - 1 >= 2 /\ tk[1] = file_movie
        THEN Join(Tail(tk))
        ELSE raw_sid

\* data_map[sid] = item
MapPut(dm, sid, item) ==
    [x \in DOMAIN dm \cup {sid} |-> IF x = sid THEN item ELSE dm[x]]

\* the loop over the items of a list document; item.get raises for an item
\* that is not a dict
RECURSIVE LoadItems(_, _, _, _)
LoadItems(dm, items, file_movie, movie_name) ==
    IF items = <<>> THEN [ok |-> TRUE, map |-> dm]
    ELSE LET item == Head(items)
         IN  IF ~item.isdict THEN [ok |-> FALSE, map |-> dm]
             ELSE LET sid == ObjGet(item.obj, "scene_id")
                  IN  IF Falsy(sid) \/ (file_movie # NoneMovie /\ file_movie # movie_name)
                      THEN LoadItems(dm, Tail(items), file_movie, movie_name)
                      ELSE LoadItems(MapPut(dm, local_sid(sid.s, file_movie), item.obj),
                                     Tail(items), file_movie, movie_name)

\* A loader that accepts the files of every movie.
LoadFileAnyMovie(dm, file, movie_name) ==
    LET c == file.content
        file_movie == FileMovie(file)
    IN  CASE c.kind = "bad"  -> [ok |-> FALSE, map |-> dm]
          [] c.kind = "list" -> LoadItems(dm, c.items, NoneMovie, movie_name)
          [] c.kind = "dict" ->
                LET sid == ObjGet(c.obj, "scene_id")
                IN  IF Falsy(sid)
                    THEN [ok |-> TRUE, map |-> dm]
                    ELSE [ok |-> TRUE, map |-> MapPut(dm, local_sid(sid.s, file_movie), c.obj)]
          [] OTHER -> [ok |-> TRUE, map |-> dm]

\* the body of the loop over the files of the folder; json.load raises for
\* a file that is not JSON
LoadFile(dm, file, movie_name) ==
    LET c == file.content
        file_movie == FileMovie(file)
    IN  CASE c.kind = "bad"  -> [ok |-> FALSE, map |-> dm]
          [] c.kind = "list" -> LoadItems(dm, c.items, file_movie, movie_name)
          [] c.kind = "dict" ->
                LET sid == ObjGet(c.obj, "scene_id")
                IN  IF Falsy(sid) \/ (file_movie # NoneMovie /\ file_movie # movie_name)
                    THEN [ok |-> TRUE, map |-> dm]
                    ELSE [ok |-> TRUE, map |-> MapPut(dm, local_sid(sid.s, file_movie), c.obj)]
          [] OTHER -> [ok |-> TRUE, map |-> dm]

RECURSIVE LoadFiles(_, _, _)
LoadFiles(dm, files, movie_name) ==
    IF files = <<>> THEN [ok |-> TRUE, map |-> dm]
    ELSE LET r == LoadFile(dm, Head(files), movie_name)
         IN  IF r.ok THEN LoadFiles(r.map, Tail(files), movie_name) ELSE r

\* A movie subfolder exists when it holds a file.
load_folder_as_map(fs, phase, movie_name) ==
    LET search_folder == IF fs[<<phase, movie_name>>] # <<>>
                         THEN fs[<<phase, movie_name>>]
                         ELSE fs[<<phase, "root">>]
    IN  LoadFiles([sid \in {} |-> Null], search_folder, movie_name)

(***************************************************************************)
(* scene_schema: validate_scene and enforce_scene                          *)
(*                                                                         *)
(* A message is [field, idx, at, why]: the field it names, the index of    *)
(* the list item (0 when none), the sub-key (empty when none) and the kind *)
(* of the complaint.  A number of the schema is a number of tenths.        *)
(***************************************************************************)
\* Declared types of the schema document src/schema/scene_schema.json.
SchemaType(field) ==
    CASE field \in TemplateStrFields \cup {"scene_id", "movie_id", "title_name",
                                          "metadata_generated_at"} -> "string"
      [] field \in TemplateListFields -> "array"
      [] field \in {"key_plot_point", "profanity_present", "vfx_presence",
                    "cg_characters_present"} -> "boolean"
      [] field \in {"field_confidences", "field_provenance"} -> "object"
      [] field \in TemplateFields -> "number"
      [] OTHER -> "undeclared"

SchemaItemType(field) ==
    IF field \in {"characters", "objects", "character_dominance_ranking"}
    THEN "object" ELSE "undeclared"

\* A schema of a number between 0 and 1.
UnitNumber == [type |-> "number", ranged |-> TRUE, minimum |-> 0, maximum |-> 10]

\* items.properties of the array fields of the schema document.
SchemaItemProps(field) ==
    IF field = "character_dominance_ranking"
    THEN [k \in {"character", "score"} |->
             IF k = "score" THEN UnitNumber
             ELSE [type |-> "string", ranged |-> FALSE, minimum |-> 0, maximum |-> 0]]
    ELSE [k \in {} |-> UnitNumber]

\* additionalProperties of the object fields of the schema document: a
\* one-of list for field_confidences (a number between 0 and 1, or an
\* object of such numbers), a plain schema for field_provenance.
SchemaAdditional(field) ==
    CASE field = "field_confidences" ->
            [kind |-> "oneOf",
             oneOf |-> << [type |-> "number", inner |-> UnitNumber],
                          [type |-> "object", inner |-> UnitNumber] >>]
      [] field = "field_provenance" ->
            [kind |-> "plain",
             plain |-> [type |-> "array", ranged |-> FALSE, minimum |-> 0, maximum |-> 0]]
      [] OTHER -> [kind |-> "none"]

\* isinstance(v, (int, float)) and not isinstance(v, bool)
_is_number(v) == v.t = "num"

_check_type(val, expected) ==
    CASE expected = "string"  -> val.t \in {"str", "null"}
      [] expected = "number"  -> val.t \in {"num", "null"}
      [] expected = "boolean" -> val.t \in {"bool", "null"}
      [] expected = "array"   -> val.t \in {"list", "null"}
      [] expected = "object"  -> val.t \in {"dict", "null"}
      [] OTHER -> TRUE

Msg(field, idx, at, why) == [field |-> field, idx |-> idx, at |-> at, why |-> why]

\* the minimum/maximum checks of a number against a ranged schema
RangeMessages(field, idx, at, v, sch) ==
    IF sch.type = "number" /\ _is_number(v) /\ sch.ranged
    THEN (IF v.n < sch.minimum THEN {Msg(field, idx, at, "below minimum")} ELSE {})
             \cup (IF v.n > sch.maximum THEN {Msg(field, idx, at, "above maximum")} ELSE {})
    ELSE {}

\* lines 68-100: item i of an array field
ItemMessages(field, i, item) ==
    IF SchemaItemType(field) = "object" /\ item.t = "dict"
    THEN UNION {(IF ~_check_type(item.d[subk], SchemaItemProps(field)[subk].type)
                 THEN {Msg(field, i, subk, "invalid type")} ELSE {})
                    \cup RangeMessages(field, i, subk, item.d[subk],
                                       SchemaItemProps(field)[subk]) :
                   subk \in DOMAIN SchemaItemProps(field) \cap DOMAIN item.d}
    ELSE IF ~_check_type(item, SchemaItemType(field))
         THEN {Msg(field, i, "", "invalid type")} ELSE {}

\* An alternative is validated by its type alone.
OptionMatchesType(opt, v2) == _check_type(v2, opt.type)

\* lines 121-203: the alternative opt is validated for the value v2
OptionMatches(opt, v2) ==
    /\ _check_type(v2, opt.type)
    /\ (opt.type = "number" /\ _is_number(v2)) =>
           (v2.n >= opt.inner.minimum /\ v2.n <= opt.inner.maximum)
    /\ (opt.type = "object" /\ v2.t = "dict") =>
           \A in_k \in DOMAIN v2.d :
               /\ _check_type(v2.d[in_k], opt.inner.type)
               /\ (opt.inner.type = "number" /\ _is_number(v2.d[in_k])) =>
                      (v2.d[in_k].n >= opt.inner.minimum /\ v2.d[in_k].n <= opt.inner.maximum)

\* lines 112-231: the values of an object field against additionalProperties
AdditionalMessages(field, d) ==
    LET addl == SchemaAdditional(field)
    IN  CASE addl.kind = "oneOf" ->
                {Msg(field, 0, k2, "invalid value") :
                    k2 \in {k \in DOMAIN d :
                               ~\E o \in 1..Len(addl.oneOf) : OptionMatches(addl.oneOf[o], d[k])}}
          [] addl.kind = "plain" ->
                UNION {(IF ~_check_type(d[k2], addl.plain.type)
                        THEN {Msg(field, 0, k2, "invalid type")} ELSE {})
                           \cup RangeMessages(field, 0, k2, d[k2], addl.plain) :
                          k2 \in DOMAIN d}
          [] OTHER -> {}

\* lines 58-231: the checks of one declared field that is present
FieldMessages(scene, field) ==
    LET expected == SchemaType(field)
        val == scene[field]
    IN  IF val = Null THEN {}
        ELSE IF expected = "array" /\ val.t = "list"
        THEN UNION {ItemMessages(field, i, val.l[i]) : i \in 1..Len(val.l)}
        ELSE (IF ~_check_type(val, expected)
              THEN {Msg(field, 0, "", "invalid type")} ELSE {})
                 \cup (IF expected = "object" /\ val.t = "dict"
                       THEN AdditionalMessages(field, val.d) ELSE {})

\* The messages for a scene that is a dict.
SceneMessages(scene) ==
    {Msg(f, 0, "", "missing") : f \in {"scene_id", "movie_id"} \ DOMAIN scene}
        \cup UNION {FieldMessages(scene, f) :
                       f \in {g \in DOMAIN scene : SchemaType(g) # "undeclared"}}

\* The outcome of a call: raised, or the returned pair (is_valid, msgs).
Returned(msgs) == [raised |-> FALSE, valid |-> msgs = {}, msgs |-> msgs]
Raised == [raised |-> TRUE, valid |-> FALSE, msgs |-> {}]

\* A validate_scene without the isinstance check of line 23: `in` raises a
\* TypeError for a value that is no container.
validate_scene_unguarded(scene) ==
    CASE scene.t = "dict" -> Returned(SceneMessages(scene.d))
      [] scene.t \in {"null", "num", "bool"} -> Raised
      [] OTHER -> Returned({Msg(f, 0, "", "missing") : f \in {"scene_id", "movie_id"}})

\* validate_scene(scene) for a value of any shape; no statement of the try
\* block raises for a JSON value, and jsonschema is not installed.
validate_scene(scene) ==
    IF scene.t # "dict"
    THEN Returned({Msg("", 0, "", "scene is not a dict")})
    ELSE Returned(SceneMessages(scene.d))

\* An enforce_scene that returns the pair whatever the mode.
enforce_scene_lenient(scene, STRICT) == validate_scene(scene)

\* enforce_scene(scene) with the module constant STRICT
enforce_scene(scene, STRICT) ==
    IF ~validate_scene(scene).valid /\ STRICT THEN Raised ELSE validate_scene(scene)

(***************************************************************************)
(* main                                                                    *)
(***************************************************************************)
\* the conservative merges of one scene, phase after phase
RECURSIVE MergePhases(_, _, _, _)
MergePhases(scene, sid, maps, i) ==
    IF i > Len(PHASES) THEN [ok |-> TRUE, tgt |-> scene]
    ELSE IF sid \in DOMAIN maps[i]
         THEN LET r == merge_scene(scene, maps[i][sid])
              IN  IF r.ok THEN MergePhases(r.tgt, sid, maps, i + 1) ELSE r
         ELSE MergePhases(scene, sid, maps, i + 1)

\* A stamp that sets the title only and leaves movie_id as merged.
StampTitleOnly(scene, movie) ==
    [f \in DOMAIN scene \cup {"title_name"} |->
        IF f = "title_name" THEN S(movie) ELSE scene[f]]

\* scene["movie_id"] = movie; scene["title_name"] = movie
Stamp(scene, movie) ==
    [f \in DOMAIN scene \cup {"movie_id", "title_name"} |->
        IF f \in {"movie_id", "title_name"} THEN S(movie) ELSE scene[f]]

\* one iteration of the loop over scene_ids
BuildScene(sid, scene_timings, maps, movie, now) ==
    LET scene == UpdateTiming(empty_scene_template(sid, now), scene_timings[sid])
        r     == MergePhases(scene, sid, maps, 1)
    IN  [ok |-> r.ok, scene |-> Stamp(r.tgt, movie)]

\* val not in (None, "", [], {})
NonEmpty(val) == val \notin {Null, S(""), L(<<>>), D(EmptyDict)}

ProvenanceOf(scene) ==
    [f \in {g \in DOMAIN scene \ {"scene_id", "movie_id", "title_name"} :
                NonEmpty(scene[g])} |-> TRUE]

ProvenanceFile(final_scenes) ==
    [pid \in {final_scenes[i]["scene_id"].s : i \in 1..Len(final_scenes)} |->
        ProvenanceOf(final_scenes[
            CHOOSE i \in 1..Len(final_scenes) :
                /\ final_scenes[i]["scene_id"].s = pid
                /\ \A j \in (i+1)..Len(final_scenes) : final_scenes[j]["scene_id"].s # pid])]

\* output paths of a movie
OutputFile(movie)      == <<"outputs/scene_index", movie, "_FINAL.json">>
ProvenancePath(movie)  == <<"outputs/scene_index", movie, "_FINAL.provenance.json">>
FinalOutputFile(movie) == <<"output_json", movie, "_complete_schema.json">>

\* open(path, "w") ... json.dump(content)
WriteFile(files, path, content) ==
    [p \in DOMAIN files \cup {path} |-> IF p = path THEN content ELSE files[p]]

\* No schema check has run.
NoCheck == [raised |-> FALSE, checked |-> 0, reported |-> {}]

\* The loop of the final schema check from scene i on: the number of scenes
\* validate_scene was called for, whether a RuntimeError was raised, and the
\* scenes whose messages the error carries.
RECURSIVE SchemaCheckFrom(_, _, _)
SchemaCheckFrom(final_scenes, i, strict) ==
    IF i > Len(final_scenes)
    THEN [raised |-> FALSE, checked |-> Len(final_scenes), reported |-> {}]
    ELSE IF ~validate_scene(D(final_scenes[i])).valid /\ strict
         THEN [raised |-> TRUE, checked |-> i, reported |-> {i}]
         ELSE SchemaCheckFrom(final_scenes, i + 1, strict)

\* The try block of the final schema check raises a RuntimeError at the
\* first invalid scene in strict mode.
SchemaCheckRaises(final_scenes, strict) ==
    strict /\ \E i \in 1..Len(final_scenes) : ~validate_scene(D(final_scenes[i])).valid

\* `except Exception: pass` encloses the whole check, the raise included;
\* an exception leaves main only if that clause does not catch it.
CaughtByExcept == {"RuntimeError", "ImportError", "Exception"}

SchemaCheckEscapes(final_scenes, strict) ==
    SchemaCheckRaises(final_scenes, strict) /\ "RuntimeError" \notin CaughtByExcept

\* the loop over scene_ids: one result per scene, in iteration order
BuildScenes(scene_ids, scene_timings, maps, movie, now) ==
    [i \in 1..Len(scene_ids) |->
        BuildScene(scene_ids[i], scene_timings, maps, movie, now)]

\* the three json.dump calls and the final schema check
WriteOutputs(files, final_scenes, movie, strict, now) ==
    LET written ==
            WriteFile(
                WriteFile(
                    WriteFile(files, OutputFile(movie), final_scenes),
                    ProvenancePath(movie), ProvenanceFile(final_scenes)),
                FinalOutputFile(movie),
                [movie |-> movie, total_scenes |-> Len(final_scenes),
                 scenes |-> final_scenes, generated_at |-> Timestamp(now)])
    IN  IF SchemaCheckEscapes(final_scenes, strict)
        THEN [status |-> "error", files |-> written,
              check |-> SchemaCheckFrom(final_scenes, 1, strict)]
        ELSE [status |-> "ok", files |-> written,
              check |-> SchemaCheckFrom(final_scenes, 1, strict)]

\* main after the loop over scene_ids: an exception raised by a merge has
\* left main before anything is written
FinishBuild(files, built, movie, strict, now) ==
    IF \E i \in 1..Len(built) : ~built[i].ok
    THEN [status |-> "error", files |-> files, check |-> NoCheck]
    ELSE WriteOutputs(files, [i \in 1..Len(built) |-> built[i].scene],
                      movie, strict, now)

\* main(): the output files and the completion status of one build.
main(fs, tm, files, movie, strict, now) ==
    LET loads == [i \in 1..Len(PHASES) |-> load_folder_as_map(fs, PHASES[i], movie)]
        maps  == [i \in 1..Len(PHASES) |-> loads[i].map]
        scene_timings == load_scene_timings(tm[movie])
    IN  IF \E i \in 1..Len(PHASES) : ~loads[i].ok
        THEN [status |-> "error", files |-> files, check |-> NoCheck]
        ELSE FinishBuild(files,
                         BuildScenes(sorted(DOMAIN scene_timings), scene_timings,
                                     maps, movie, now),
                         movie, strict, now)

(***************************************************************************)
(* scene_fusion: merge_scenes_from_sources                                 *)
(*                                                                         *)
(* A contribution is [scene |-> record, source |-> name or Null]; a        *)
(* confidence is a number of tenths (9 for 0.9) or Null when absent.       *)
(***************************************************************************)
NotFused == [ok |-> FALSE, why |-> "not fused"]

NoScene == [t |-> "none"]
NotRun == [raised |-> FALSE, valid |-> FALSE, msgs |-> {}]

\* json.dumps(it, sort_keys=True) / json.dumps(it): the JSON text of a value
\* is determined by the value and differs for different values, so the
\* value stands for its text.
JsonKey(it) == [json |-> it]

RECURSIVE UniqFrom(_, _, _)
UniqFrom(items, seen, out) ==
    IF items = <<>> THEN out
    ELSE LET key == JsonKey(Head(items))
         IN  IF key \in seen
             THEN UniqFrom(Tail(items), seen, out)
             ELSE UniqFrom(Tail(items), seen \cup {key}, Append(out, Head(items)))

_uniq_list(items) == UniqFrom(items, {}, <<>>)

\* An append that does not look for the item in the list.
AppendAll(out, p) == out \o p

\* for x in p: if x not in out: out.append(x)
RECURSIVE AppendNew(_, _)
AppendNew(out, p) ==
    IF p = <<>> THEN out
    ELSE IF \E i \in 1..Len(out) : out[i] = Head(p)
         THEN AppendNew(out, Tail(p))
         ELSE AppendNew(Append(out, Head(p)), Tail(p))

\* c if c is not None else -1.0
ConfKey(c) == IF c = Null THEN -1 ELSE c.n

\* A pick that does not filter out the candidates without a value.
_pick_with_null(candidates) ==
    LET idx == 1..Len(candidates)
    IN  IF idx = {} THEN [val |-> Null, conf |-> Null, prov |-> <<>>]
        ELSE LET best == CHOOSE i \in idx :
                             /\ \A j \in idx : ConfKey(candidates[j].conf) <= ConfKey(candidates[i].conf)
                             /\ \A j \in idx : j < i =>
                                    ConfKey(candidates[j].conf) < ConfKey(candidates[i].conf)
             IN  [val  |-> candidates[best].val,
                  conf |-> IF ConfKey(candidates[best].conf) < 0 THEN Null
                           ELSE candidates[best].conf,
                  prov |-> candidates[best].prov]

\* A pick that keeps the last of the candidates of highest confidence.
_pick_last_best(candidates) ==
    LET idx == {i \in 1..Len(candidates) : candidates[i].val # Null}
    IN  IF idx = {} THEN [val |-> Null, conf |-> Null, prov |-> <<>>]
        ELSE LET best == CHOOSE i \in idx :
                             /\ \A j \in idx : ConfKey(candidates[j].conf) <= ConfKey(candidates[i].conf)
                             /\ \A j \in idx : j > i =>
                                    ConfKey(candidates[j].conf) < ConfKey(candidates[i].conf)
                 RECURSIVE ProvUnion(_, _)
                 ProvUnion(i, out) ==
                     IF i > Len(candidates) THEN out
                     ELSE IF i \in idx THEN ProvUnion(i + 1, AppendNew(out, candidates[i].prov))
                     ELSE ProvUnion(i + 1, out)
             IN  [val  |-> candidates[best].val,
                  conf |-> IF ConfKey(candidates[best].conf) < 0 THEN Null
                           ELSE candidates[best].conf,
                  prov |-> ProvUnion(1, <<>>)]

\* _pick_best_scalar: the candidates with a value, the first of those of
\* highest confidence (max() keeps the first maximum), the union of the
\* provenance lists of all of them.
_pick_best_scalar(candidates) ==
    LET idx == {i \in 1..Len(candidates) : candidates[i].val # Null}
    IN  IF idx = {} THEN [val |-> Null, conf |-> Null, prov |-> <<>>]
        ELSE LET best == CHOOSE i \in idx :
                             /\ \A j \in idx : ConfKey(candidates[j].conf) <= ConfKey(candidates[i].conf)
                             /\ \A j \in idx : j < i =>
                                    ConfKey(candidates[j].conf) < ConfKey(candidates[i].conf)
                 RECURSIVE ProvUnion(_, _)
                 ProvUnion(i, out) ==
                     IF i > Len(candidates) THEN out
                     ELSE IF i \in idx THEN ProvUnion(i + 1, AppendNew(out, candidates[i].prov))
                     ELSE ProvUnion(i + 1, out)
             IN  [val  |-> candidates[best].val,
                  conf |-> IF ConfKey(candidates[best].conf) < 0 THEN Null
                           ELSE candidates[best].conf,
                  prov |-> ProvUnion(1, <<>>)]

\* s.get("source") or s.get("__source") or "unknown"
SourceName(s) == IF Falsy(s.source) THEN S("unknown") ELSE s.source

\* scene.get(meta, {}).get(field, default)
Embedded(scene, meta, field, default) ==
    IF meta \in DOMAIN scene /\ field \in DOMAIN scene[meta].d
    THEN scene[meta].d[field] ELSE default

\* the candidates of a field: one per contribution whose record has the key
RECURSIVE Candidates(_, _)
Candidates(srcs, field) ==
    IF srcs = <<>> THEN <<>>
    ELSE LET s     == Head(srcs)
             provs == Embedded(s.scene, "field_provenance", field, L(<<>>)).l
         IN  IF field \in DOMAIN s.scene
             THEN << [val  |-> s.scene[field],
                      conf |-> Embedded(s.scene, "field_confidences", field, Null),
                      prov |-> AppendNew(provs, <<SourceName(s)>>)] >>
                      \o Candidates(Tail(srcs), field)
             ELSE Candidates(Tail(srcs), field)

RECURSIVE AllProv(_, _)
AllProv(candidates, out) ==
    IF candidates = <<>> THEN out
    ELSE AllProv(Tail(candidates), AppendNew(out, Head(candidates).prov))

RECURSIVE ExtendLists(_)
ExtendLists(candidates) ==
    IF candidates = <<>> THEN <<>>
    ELSE (IF Head(candidates).val.t = "list" THEN Head(candidates).val.l ELSE <<>>)
             \o ExtendLists(Tail(candidates))

MaxConf(candidates) ==
    LET cs == {candidates[i].conf.n : i \in {j \in 1..Len(candidates) : candidates[j].conf # Null}}
    IN  IF cs = {} THEN Null ELSE N(CHOOSE c \in cs : \A d \in cs : d <= c)

\* The items of the list-valued candidates of "characters", each with the
\* confidence of its candidate.
RECURSIVE CharItems(_)
CharItems(candidates) ==
    IF candidates = <<>> THEN <<>>
    ELSE LET c == Head(candidates)
         IN  (IF c.val.t = "list"
              THEN [i \in 1..Len(c.val.l) |-> [item |-> c.val.l[i], conf |-> c.conf]]
              ELSE <<>>) \o CharItems(Tail(candidates))

IsNumber(v) == v.t \in {"num", "bool"}

\* float(v)
Float(v) == IF v.t = "bool" THEN (IF v.b THEN 1 ELSE 0) ELSE v.n

\* The aggregation loop over the character items: names in first-seen
\* order, the entry of each name, the confidence of each name.  It raises
\* where float() or max() is applied to a value that is not a number.
RECURSIVE AggregateChars(_, _, _, _)
AggregateChars(items, names, char_map, confs_map) ==
    IF items = <<>> THEN [ok |-> TRUE, names |-> names, char_map |-> char_map,
                          confs_map |-> confs_map]
    ELSE LET item == Head(items).item
             conf == Head(items).conf
         IN  IF item.t # "dict"
             THEN [ok |-> FALSE, names |-> names, char_map |-> char_map, confs_map |-> confs_map]
             ELSE LET nameV == IF "name" \in DOMAIN item.d THEN item.d["name"] ELSE Null
                  IN  IF Falsy(nameV)
                      THEN AggregateChars(Tail(items), names, char_map, confs_map)
                      ELSE LET name == nameV.s
                               first == name \notin DOMAIN char_map
                               entry ==
                                   IF first
                                   THEN IF "screen_time" \in DOMAIN item.d THEN item.d
                                        ELSE [k \in DOMAIN item.d \cup {"screen_time"} |->
                                                 IF k = "screen_time" THEN N(0) ELSE item.d[k]]
                                   ELSE IF "screen_time" \in DOMAIN item.d /\ IsNumber(item.d["screen_time"])
                                        THEN [char_map[name] EXCEPT !["screen_time"] =
                                                 N(Float(@) + Float(item.d["screen_time"]))]
                                        ELSE char_map[name]
                               cm == [n \in DOMAIN char_map \cup {name} |->
                                         IF n = name THEN entry ELSE char_map[n]]
                               fm == IF conf = Null THEN confs_map
                                     ELSE [n \in DOMAIN confs_map \cup {name} |->
                                              IF n = name
                                              THEN (IF name \in DOMAIN confs_map /\ confs_map[name].n > conf.n
                                                    THEN confs_map[name]
                                                    ELSE IF conf.n > 0 THEN conf ELSE N(0))
                                              ELSE confs_map[n]]
                           IN  IF \/ /\ ~first /\ "screen_time" \in DOMAIN item.d
                                     /\ IsNumber(item.d["screen_time"])
                                     /\ ~IsNumber(char_map[name]["screen_time"])
                                  \/ conf # Null /\ ~IsNumber(conf)
                               THEN [ok |-> FALSE, names |-> names, char_map |-> char_map,
                                     confs_map |-> confs_map]
                               ELSE AggregateChars(Tail(items),
                                                   IF first THEN Append(names, name) ELSE names,
                                                   cm, fm)

\* The body of the loop over sorted(all_keys) for one field: the fused
\* value, whether and what is stored in field_confidences and in
\* field_provenance, and whether the body raised.
FuseField(srcs, field) ==
    LET candidates == Candidates(srcs, field)
        first_val  == candidates[1].val
    IN  IF first_val.t = "list"
        THEN IF /\ first_val.l # <<>>
                /\ first_val.l[1].t = "dict"
                /\ field = "characters"
             THEN LET a == AggregateChars(CharItems(candidates), <<>>,
                                          [n \in {} |-> Null], [n \in {} |-> Null])
                      provs_all == AllProv(candidates, <<>>)
                  IN  [ok |-> a.ok,
                       val |-> L([i \in 1..Len(a.names) |-> D(a.char_map[a.names[i]])]),
                       hasConf |-> DOMAIN a.confs_map # {},
                       conf |-> D(a.confs_map),
                       hasProv |-> provs_all # <<>>,
                       prov |-> L(provs_all)]
             ELSE LET provs_all == AllProv(candidates, <<>>)
                  IN  [ok |-> TRUE,
                       val |-> L(_uniq_list(ExtendLists(candidates))),
                       hasConf |-> TRUE,
                       conf |-> MaxConf(candidates),
                       hasProv |-> provs_all # <<>>,
                       prov |-> L(provs_all)]
        ELSE LET r == _pick_best_scalar(candidates)
             IN  [ok |-> TRUE,
                  val |-> r.val,
                  hasConf |-> r.conf # Null,
                  conf |-> r.conf,
                  hasProv |-> r.prov # <<>>,
                  prov |-> L(r.prov)]

\* the identifier of the first contribution that has a truthy one
FirstIdent(srcs, idk) ==
    LET idx == {i \in 1..Len(srcs) : idk \in DOMAIN srcs[i].scene /\ ~Falsy(srcs[i].scene[idk])}
    IN  IF idx = {} THEN Null
        ELSE srcs[CHOOSE i \in idx : \A j \in idx : i <= j].scene[idk]

merge_scenes_from_sources(srcs) ==
    LET all_keys == UNION {DOMAIN srcs[i].scene : i \in 1..Len(srcs)}
        fields   == all_keys \ IDENTITY_KEYS
        idents   == {idk \in IDENTITY_KEYS : FirstIdent(srcs, idk) # Null}
        fz       == [f \in fields |-> FuseField(srcs, f)]
        field_confidences == [f \in {g \in fields : fz[g].hasConf} |-> fz[f].conf]
        field_provenance  == [f \in {g \in fields : fz[g].hasProv} |-> fz[f].prov]
        metas == (IF DOMAIN field_confidences # {} THEN {"field_confidences"} ELSE {})
                     \cup (IF DOMAIN field_provenance # {} THEN {"field_provenance"} ELSE {})
        merged == [f \in idents \cup fields \cup metas |->
                      CASE f = "field_confidences" /\ f \in metas -> D(field_confidences)
                        [] f = "field_provenance" /\ f \in metas -> D(field_provenance)
                        [] f \in idents -> FirstIdent(srcs, f)
                        [] OTHER -> fz[f].val]
    IN  IF \E f \in fields : ~fz[f].ok
        THEN [ok |-> FALSE, why |-> "raised"]
        ELSE [ok |-> TRUE, merged |-> merged]

\* Objects of the heap the aggregation of characters writes to: the item k
\* of the characters list of contribution i, or an object of the call's own.
ItemAt(i, k) == [src |-> i, item |-> k]
OwnObject == [src |-> 0, item |-> 0]

\* A store that keeps the item itself in char_map.
item_alias(loc) == loc

\* char_map[name] = item.copy(): char_map holds a new dict, not the item
item_copy(loc) == OwnObject

\* The characters branch is taken for the contributions.
CharactersAggregated(srcs) ==
    /\ \E i \in 1..Len(srcs) : "characters" \in DOMAIN srcs[i].scene
    /\ LET first_val == Candidates(srcs, "characters")[1].val
       IN  /\ first_val.t = "list"
           /\ first_val.l # <<>>
           /\ first_val.l[1].t = "dict"

\* The character items of the contributions that carry the name.
ItemsNamed(srcs, name) ==
    UNION {{ItemAt(i, k) : k \in {j \in 1..Len(srcs[i].scene["characters"].l) :
                                    LET it == srcs[i].scene["characters"].l[j]
                                    IN  /\ it.t = "dict"
                                        /\ "name" \in DOMAIN it.d
                                        /\ it.d["name"] = S(name)}} :
              i \in {h \in 1..Len(srcs) :
                         /\ "characters" \in DOMAIN srcs[h].scene
                         /\ srcs[h].scene["characters"].t = "list"}}

\* The object char_map[name] refers to: what line 113 stored for the first
\* item of the name.
StoredFor(srcs, name) ==
    item_copy(CHOOSE loc \in ItemsNamed(srcs, name) :
                  \A o \in ItemsNamed(srcs, name) :
                      loc.src < o.src \/ (loc.src = o.src /\ loc.item <= o.item))

\* The contributions after the call.  The only writes of the call to a dict
\* it may not have created itself are those to char_map[name] (lines 116
\* and 120): an item of a contribution changes when char_map refers to it,
\* and then it is the entry of its name.
SourcesAfter(srcs) ==
    IF ~CharactersAggregated(srcs) THEN srcs
    ELSE LET a == AggregateChars(CharItems(Candidates(srcs, "characters")), <<>>,
                                 [n \in {} |-> Null], [n \in {} |-> Null])
             after(i, k) ==
                 LET it == srcs[i].scene["characters"].l[k]
                 IN  IF /\ it.t = "dict"
                        /\ "name" \in DOMAIN it.d
                        /\ ~Falsy(it.d["name"])
                        /\ StoredFor(srcs, it.d["name"].s) = ItemAt(i, k)
                     THEN D(a.char_map[it.d["name"].s])
                     ELSE it
         IN  IF ~a.ok THEN srcs
             ELSE [i \in 1..Len(srcs) |->
                      IF /\ "characters" \in DOMAIN srcs[i].scene
                         /\ srcs[i].scene["characters"].t = "list"
                      THEN [srcs[i] EXCEPT !.scene["characters"] =
                               L([k \in 1..Len(@.l) |-> after(i, k)])]
                      ELSE srcs[i]]

(***************************************************************************)
(* Specification of the master merge build: upstream phases write their    *)
(* fragment files, then builds run; a timing table may disappear.          *)
(***************************************************************************)
\* The fragment files the phases of the model can write.
FragmentFiles ==
    { [phase |-> "segments", dir |-> "root",
       file |-> [stem |-> "A_scene_0001",
                 content |-> [kind |-> "dict",
                              obj |-> << <<"scene_id", S("scene_0001")>>,
                                         <<"scene_summary", S("only-A")>> >>]]],
      [phase |-> "segments", dir |-> "root",
       file |-> [stem |-> "B_scene_0001",
                 content |-> [kind |-> "dict",
                              obj |-> << <<"scene_id", S("B_scene_0001")>>,
                                         <<"scene_summary", S("only-B")>>,
                                         <<"objects", L(<<D([k \in {"type"} |-> S("only-B")])>>)>> >>]]],
      [phase |-> "segments", dir |-> "root",
       file |-> [stem |-> "frag",
                 content |-> [kind |-> "dict",
                              obj |-> << <<"scene_id", S("scene_0001")>>,
                                         <<"scene_summary", S("bc")>>,
                                         <<"objects", L(<<S("a")>>)>> >>]]],
      [phase |-> "speakers", dir |-> "root",
       file |-> [stem |-> "frag",
                 content |-> [kind |-> "list",
                              items |-> << [isdict |-> TRUE,
                                            obj |-> << <<"scene_id", S("A_scene_0001")>>,
                                                       <<"movie_id", S("A")>>,
                                                       <<"characters", L(<<D([k \in {"name"} |-> S("only-A")])>>)>> >>],
                                           [isdict |-> TRUE,
                                            obj |-> << <<"scene_id", S("scene_0002")>>,
                                                       <<"movie_id", S("B")>>,
                                                       <<"scene_summary", S("bc")>> >>] >>]]],
      [phase |-> "dialogue", dir |-> "root",
       file |-> [stem |-> "B_scene_0002", content |-> [kind |-> "bad"]]],
      [phase |-> "actors", dir |-> "root",
       file |-> [stem |-> "frag",
                 content |-> [kind |-> "list",
                              items |-> << [isdict |-> FALSE, obj |-> <<>>] >>]]],
      [phase |-> "context", dir |-> "root",
       file |-> [stem |-> "frag", content |-> [kind |-> "scalar"]]],
      [phase |-> "dialogue", dir |-> "A",
       file |-> [stem |-> "frag",
                 content |-> [kind |-> "dict",
                              obj |-> << <<"scene_id", S("scene_0001")>>,
                                         <<"dialogue_text", L(<<S("a")>>)>> >>]]],
      [phase |-> "visuals", dir |-> "root",
       file |-> [stem |-> "B_scene_0001",
                 content |-> [kind |-> "dict",
                              obj |-> << <<"scene_id", S("scene_0001")>>,
                                         <<"movie_id", S("A")>>,
                                         <<"scene_summary", S("early")>>,
                                         <<"importance_score", N(0)>> >>]]],
      [phase |-> "emotion", dir |-> "root",
       file |-> [stem |-> "frag",
                 content |-> [kind |-> "dict",
                              obj |-> << <<"scene_id", S("scene_0001")>>,
                                         <<"scene_summary", S("late")>>,
                                         <<"importance_score", S("a")>> >>]]] }

\* The timing tables segmentation can have written for a movie.
TimingTables ==
    {Table(<<"scene_0001">>), Table(<<"scene_0002", "scene_0001">>),
     Table(<<"scene_0001", "scene_0002">>)}

FolderKeys == PhaseSet \X Dirs

RECURSIVE SumLen(_, _)
SumLen(f, ks) ==
    IF ks = {} THEN 0
    ELSE LET k == CHOOSE x \in ks : TRUE IN Len(f[k]) + SumLen(f, ks \ {k})

\* The timing fields of the scene merge_scene is exercised on.
MergeTiming == [f \in TimingFields |-> CASE f = "start_time" -> N(0) [] OTHER -> N(5)]

MergeIdle ==
    /\ target = UpdateTiming(empty_scene_template("scene_0001", 1), MergeTiming)
    /\ mprev = target
    /\ msrc = <<>>
    /\ mraised = FALSE
    /\ nmerge = 0

FusionIdle ==
    /\ fsources = <<>>
    /\ fused = NotFused
    /\ fusedAgain = NotFused

SchemaIdle ==
    /\ vscene = NoScene
    /\ vout = NotRun
    /\ eout = NotRun

IdsIdle ==
    /\ fragMovie = NoneMovie
    /\ fragLocal = ""
    /\ fragFile = NoFile
    /\ fragMap = NoMap

PipelineIdle ==
    /\ artifacts = {}
    /\ pmovie = NoneMovie
    /\ ran = <<>>
    /\ forced = FALSE
    /\ nruns = 0

BuildIdle ==
    /\ timings = [m \in Movies |-> NoFile]
    /\ folders = [k \in FolderKeys |-> <<>>]
    /\ outputs = [p \in {} |-> NoFile]
    /\ clock = 0
    /\ lastBuilt = NoneMovie
    /\ schemaStrict = FALSE
    /\ lastStatus = "none"
    /\ prevOutputs = outputs
    /\ fresh = {}
    /\ stable = FALSE
    /\ lastCheck = NoCheck

Init ==
    /\ MergeIdle
    /\ FusionIdle
    /\ SchemaIdle
    /\ IdsIdle
    /\ PipelineIdle
    /\ timings \in [Movies -> TimingTables \cup {NoFile}]
    /\ folders = [k \in FolderKeys |-> <<>>]
    /\ outputs = [p \in {} |-> NoFile]
    /\ clock = 0
    /\ lastBuilt = NoneMovie
    /\ schemaStrict \in BOOLEAN
    /\ lastStatus = "none"
    /\ prevOutputs = outputs
    /\ fresh = {}
    /\ stable = FALSE
    /\ lastCheck = NoCheck

\* An upstream phase writes a fragment file, before the first build.
AddFile(f) ==
    /\ clock = 0
    /\ SumLen(folders, FolderKeys) < MaxFiles
    /\ \A i \in 1..Len(folders[<<f.phase, f.dir>>]) :
           folders[<<f.phase, f.dir>>][i].stem # f.file.stem
    /\ folders' = [folders EXCEPT ![<<f.phase, f.dir>>] = Append(@, f.file)]
    /\ fresh' = {}
    /\ UNCHANGED <<timings, outputs, clock, lastBuilt, schemaStrict, lastStatus,
                   prevOutputs, stable, lastCheck, mvars, fvars, svars, ivars, pvars>>

\* The timing table of a movie is deleted.
RemoveTimings(m) ==
    /\ timings[m] # NoFile
    /\ timings' = [timings EXCEPT ![m] = NoFile]
    /\ fresh' = fresh \ {m}
    /\ UNCHANGED <<folders, outputs, clock, lastBuilt, schemaStrict, lastStatus,
                   prevOutputs, stable, lastCheck, mvars, fvars, svars, ivars, pvars>>

\* One run of scene_master_merger.main for the movie.
Build(movie) ==
    /\ clock < MaxBuilds
    /\ \E r \in {main(folders, timings, outputs, movie, schemaStrict, clock + 1)} :
           /\ outputs' = r.files
           /\ lastStatus' = r.status
           /\ lastCheck' = r.check
    /\ clock' = clock + 1
    /\ lastBuilt' = movie
    /\ prevOutputs' = outputs
    /\ stable' = (movie \in fresh)
    /\ fresh' = fresh \cup {movie}
    /\ UNCHANGED <<timings, folders, schemaStrict, mvars, fvars, svars, ivars, pvars>>

Next ==
    \/ \E f \in FragmentFiles : AddFile(f)
    \/ \E m \in Movies : RemoveTimings(m)
    \/ \E m \in Movies : Build(m)

Spec == Init /\ [][Next]_vars

(***************************************************************************)
(* Specification of merge_scene: a target created as main creates it, and  *)
(* fragments merged into it one after the other.                           *)
(***************************************************************************)
MergeContentKeys == {"scene_summary", "start_time", "characters", "field_confidences"}

MergeVals ==
    {Null, S("a"), S("bc"), N(1), B(FALSE),
     L(<<S("a")>>), L(<<N(1), S("1")>>),
     D([k \in {"a"} |-> N(1)]), D([k \in {"a", "b"} |-> IF k = "a" THEN Null ELSE N(0)])}

MergePairs ==
    {<<k, v>> : k \in MergeContentKeys, v \in MergeVals}
        \cup {<<"scene_id", S("scene_0002")>>, <<"movie_id", S("B")>>}

MergeFragments ==
    {<<p>> : p \in MergePairs}
        \cup {<<<<"scene_id", S("A_scene_0001")>>, p>> :
                 p \in {<<"scene_summary", S("a")>>, <<"characters", L(<<S("a")>>)>>}}


MergeInit == MergeIdle /\ BuildIdle /\ FusionIdle /\ SchemaIdle /\ IdsIdle /\ PipelineIdle

MergeScene(src) ==
    /\ nmerge < MaxMerges
    /\ ~mraised
    /\ LET r == merge_scene(target, src)
       IN  /\ target' = r.tgt
           /\ mraised' = ~r.ok
    /\ mprev' = target
    /\ msrc' = src
    /\ nmerge' = nmerge + 1
    /\ UNCHANGED <<bvars, fvars, svars, ivars, pvars>>

MergeNext == \E src \in MergeFragments : MergeScene(src)

SpecMerge == MergeInit /\ [][MergeNext]_vars

MergeTypeOK == nmerge \in 0..MaxMerges /\ mraised \in BOOLEAN

(***************************************************************************)
(* Specification of the fusion: contributions for one scene are collected  *)
(* in input order and fused.                                               *)
(***************************************************************************)
\* {"field_confidences": {field: c}} when a confidence is supplied
WithConf(rec, field, c) ==
    IF c = Null THEN rec
    ELSE [f \in DOMAIN rec \cup {"field_confidences"} |->
             IF f = "field_confidences" THEN D([k \in {field} |-> c]) ELSE rec[f]]

Rec1(field, v) == [f \in {field} |-> v]

Car == D([k \in {"type"} |-> S("car")])
Person == D([k \in {"type"} |-> S("person")])
Char(name, t) == D([k \in {"name", "screen_time"} |-> IF k = "name" THEN S(name) ELSE N(t)])

\* The contributions the stages of the model can supply.
Contributions ==
    {[scene |-> WithConf(Rec1("x", v), "x", c), source |-> S("stage_" \o v.s)] :
         v \in {S("u"), S("v")}, c \in {Null, N(3), N(9)}}
    \cup {[scene |-> WithConf(Rec1("x", Null), "x", c), source |-> S("stage_n")] :
              c \in {Null, N(9)}}
    \cup {[scene |-> WithConf(Rec1("x", D([k \in {"a"} |-> N(1)])), "x", N(3)), source |-> Null],
          [scene |-> [f \in {"scene_id", "movie_id", "x", "field_provenance"} |->
                         CASE f = "scene_id" -> S("scene_0001")
                           [] f = "movie_id" -> S("A")
                           [] f = "x" -> S("u")
                           [] OTHER -> D([k \in {"x"} |-> L(<<S("stage_u"), S("upstream")>>)])],
           source |-> S("stage_u")],
          [scene |-> Rec1("objects", L(<<Car>>)), source |-> S("det_a")],
          [scene |-> WithConf(Rec1("objects", L(<<Person, Car>>)), "objects", N(6)),
           source |-> S("det_b")],
          [scene |-> Rec1("objects", Null), source |-> S("det_a")],
          [scene |-> WithConf(Rec1("characters", L(<<Char("Alice", 5)>>)), "characters", N(9)),
           source |-> S("face_a")],
          [scene |-> WithConf(Rec1("characters", L(<<Char("Alice", 3), Char("Bob", 2)>>)),
                              "characters", N(8)),
           source |-> S("face_b")],
          [scene |-> Rec1("characters", L(<<>>)), source |-> S("face_a")]}

FusionInit == MergeIdle /\ BuildIdle /\ FusionIdle /\ SchemaIdle /\ IdsIdle /\ PipelineIdle

\* A stage supplies the next contribution of the scene.
AddSource(c) ==
    /\ fused = NotFused
    /\ Len(fsources) < MaxSources
    /\ fsources' = Append(fsources, c)
    /\ UNCHANGED <<fused, fusedAgain, mvars, bvars, svars, ivars, pvars>>

\* merge_scenes_from_sources(fsources): the call returns the fused record
\* and leaves the contributions as its writes left them.
Fuse ==
    /\ fused = NotFused
    /\ fused' = merge_scenes_from_sources(fsources)
    /\ fsources' = SourcesAfter(fsources)
    /\ UNCHANGED <<fusedAgain, mvars, bvars, svars, ivars, pvars>>

\* A second call of merge_scenes_from_sources on the same list object.
FuseAgain ==
    /\ fused # NotFused
    /\ fusedAgain = NotFused
    /\ fusedAgain' = merge_scenes_from_sources(fsources)
    /\ fsources' = SourcesAfter(fsources)
    /\ UNCHANGED <<fused, mvars, bvars, svars, ivars, pvars>>

FusionNext == (\E c \in Contributions : AddSource(c)) \/ Fuse \/ FuseAgain

SpecFusion == FusionInit /\ [][FusionNext]_vars

(***************************************************************************)
(* The state machine of the schema validation                              *)
(***************************************************************************)
\* A record with both identity fields and one more field.
SceneWith(field, v) ==
    D([f \in {"scene_id", "movie_id", field} |->
          CASE f = field -> v [] f = "scene_id" -> S("scene_0001") [] OTHER -> S("A")])

Ranking(character, score) ==
    D([k \in {"character", "score"} |-> IF k = "character" THEN character ELSE score])

NameMap(names, v) == D([k \in names |-> v])

\* The values a field_confidences map holds for a field in the model.
ConfidenceValues ==
    {Null, N(0), N(5), N(10), N(15), N(-1), S("high"), B(TRUE), L(<<N(5)>>), D(EmptyDict),
     NameMap({"Alice"}, N(9)), NameMap({"Alice", "Bob"}, N(8)), NameMap({"Alice"}, N(15)),
     NameMap({"Alice"}, N(-1)), NameMap({"Alice"}, S("high")), NameMap({"Alice"}, Null),
     NameMap({"Alice"}, B(TRUE)), NameMap({"Alice"}, NameMap({"a"}, N(5))),
     D([k \in {"Alice", "Bob"} |-> IF k = "Alice" THEN N(9) ELSE N(15)])}

\* The values handed to the validator in the model.
SceneInputs ==
    {Null, N(5), S("scene_0001"), B(TRUE), L(<<S("scene_id"), S("movie_id")>>),
     D(EmptyDict), D(Rec1("scene_id", S("scene_0001"))), D(Rec1("movie_id", S("A"))),
     SceneWith("scene_id", Null), SceneWith("scene_id", N(1)),
     SceneWith("zzz", N(1)),
     SceneWith("scene_summary", S("a chase")), SceneWith("scene_summary", N(5)),
     SceneWith("scene_summary", Null),
     SceneWith("importance_score", N(5)), SceneWith("importance_score", B(TRUE)),
     SceneWith("key_plot_point", B(TRUE)), SceneWith("key_plot_point", N(1)),
     SceneWith("characters", L(<<Char("Alice", 5)>>)), SceneWith("characters", L(<<S("Alice")>>)),
     SceneWith("characters", Char("Alice", 5)), SceneWith("characters", S("Alice")),
     SceneWith("objects", L(<<Car, N(1)>>)),
     SceneWith("character_dominance_ranking", L(<<Ranking(S("Alice"), N(8))>>)),
     SceneWith("character_dominance_ranking", L(<<Ranking(S("Alice"), N(15))>>)),
     SceneWith("character_dominance_ranking", L(<<Ranking(N(5), N(-1))>>)),
     SceneWith("character_dominance_ranking", L(<<Ranking(S("Alice"), S("high"))>>)),
     SceneWith("field_confidences", L(<<N(5)>>)), SceneWith("field_confidences", S("high")),
     SceneWith("field_confidences", D(EmptyDict)),
     SceneWith("field_provenance", NameMap({"objects"}, L(<<S("det_a")>>))),
     SceneWith("field_provenance", NameMap({"objects"}, S("det_a")))}
    \cup {SceneWith("field_confidences", NameMap({"characters"}, v)) : v \in ConfidenceValues}
    \cup {SceneWith("field_confidences",
                    D([k \in {"objects", "characters"} |-> IF k = "objects" THEN N(5) ELSE v])) :
             v \in {S("high"), NameMap({"Alice"}, N(9))}}

SchemaInit ==
    /\ MergeIdle
    /\ FusionIdle
    /\ SchemaIdle
    /\ IdsIdle
    /\ PipelineIdle
    /\ timings = [m \in Movies |-> NoFile]
    /\ folders = [k \in FolderKeys |-> <<>>]
    /\ outputs = [p \in {} |-> NoFile]
    /\ clock = 0
    /\ lastBuilt = NoneMovie
    /\ schemaStrict \in BOOLEAN
    /\ lastStatus = "none"
    /\ prevOutputs = outputs
    /\ fresh = {}
    /\ stable = FALSE
    /\ lastCheck = NoCheck

\* A caller holds a value to validate.
Submit(scene) ==
    /\ vscene = NoScene
    /\ vscene' = scene
    /\ UNCHANGED <<vout, eout, mvars, bvars, fvars, ivars, pvars>>

\* validate_scene(vscene)
Validate ==
    /\ vscene # NoScene
    /\ vout = NotRun
    /\ vout' = validate_scene(vscene)
    /\ UNCHANGED <<vscene, eout, mvars, bvars, fvars, ivars, pvars>>

\* enforce_scene(vscene) in a process whose SCHEMA_STRICT is schemaStrict
Enforce ==
    /\ vscene # NoScene
    /\ eout = NotRun
    /\ eout' = enforce_scene(vscene, schemaStrict)
    /\ UNCHANGED <<vscene, vout, mvars, bvars, fvars, ivars, pvars>>

SchemaNext == (\E scene \in SceneInputs : Submit(scene)) \/ Validate \/ Enforce

SpecSchema == SchemaInit /\ [][SchemaNext]_vars

(***************************************************************************)
(* Properties of the master merge build                                    *)
(***************************************************************************)
\* The last build reached the writes: the wrapper document carries the
\* timestamp of that build.
LastBuildWrote ==
    /\ lastBuilt # NoneMovie
    /\ FinalOutputFile(lastBuilt) \in DOMAIN outputs
    /\ outputs[FinalOutputFile(lastBuilt)].generated_at = Timestamp(clock)

\* The canonical list of a movie in a file store, if the file exists.
CanonicalOf(files, m) ==
    IF OutputFile(m) \in DOMAIN files
    THEN [exists |-> TRUE, scenes |-> files[OutputFile(m)]]
    ELSE [exists |-> FALSE]

\* The three output files of a movie in a file store.
OutputsOf(files, m) ==
    [p \in {OutputFile(m), ProvenancePath(m), FinalOutputFile(m)} \cap DOMAIN files |-> files[p]]

\* A fragment file that is not a JSON object or a list of JSON objects.
Malformed(file) ==
    \/ file.content.kind \in {"bad", "scalar"}
    \/ /\ file.content.kind = "list"
       /\ \E i \in 1..Len(file.content.items) : ~file.content.items[i].isdict

\* C1: in strict mode, a build whose canonical list holds a scene that fails
\* validate_scene ends in an error that reaches the caller.
C1_StrictFailureReachesCaller ==
    (/\ LastBuildWrote
     /\ schemaStrict
     /\ \E i \in 1..Len(outputs[OutputFile(lastBuilt)]) :
            ~validate_scene(D(outputs[OutputFile(lastBuilt)][i])).valid)
        => lastStatus = "error"

\* C2: a build of a movie whose timing table does not exist fails and
\* leaves the output files as they were.
C2_MissingTimingsFailBeforeWriting ==
    [][(clock' = clock + 1 /\ timings[lastBuilt'] = NoFile)
          => (lastStatus' = "error" /\ outputs' = outputs)]_vars

\* C3: a build completes although a phase folder holds a malformed
\* fragment file.
C3_MalformedFragmentSkipped ==
    (/\ lastBuilt # NoneMovie
     /\ \E k \in FolderKeys : \E i \in 1..Len(folders[k]) : Malformed(folders[k][i]))
        => lastStatus = "ok"

\* Removal of the timestamp fields from a canonical scene list.
StripTimestamps(c) ==
    IF ~c.exists THEN c
    ELSE [exists |-> TRUE,
          scenes |-> [i \in 1..Len(c.scenes) |->
                         [f \in DOMAIN c.scenes[i] \ {"metadata_generated_at", "generated_at"} |->
                             c.scenes[i][f]]]]

\* C4: a build that re-runs a movie on unchanged inputs yields the
\* canonical list of the previous run, timestamps aside.
C4_Idempotent ==
    stable => StripTimestamps(CanonicalOf(outputs, lastBuilt))
                  = StripTimestamps(CanonicalOf(prevOutputs, lastBuilt))

C4_Witness ==
    /\ stable
    /\ lastStatus = "ok"
    /\ CanonicalOf(outputs, lastBuilt).exists
    /\ CanonicalOf(prevOutputs, lastBuilt).exists
    /\ outputs[OutputFile(lastBuilt)] # prevOutputs[OutputFile(lastBuilt)]
    /\ \E i \in 1..Len(outputs[OutputFile(lastBuilt)]) :
           outputs[OutputFile(lastBuilt)][i]["scene_summary"] # S("")

\* C7: every record of the canonical list of movie M carries M as movie_id,
\* and the records of a list just built carry the timeline scene ids they
\* were created for, whatever ids the merged fragments carry.
C7_Identity ==
    /\ \A m \in Movies :
           OutputFile(m) \in DOMAIN outputs =>
               \A i \in 1..Len(outputs[OutputFile(m)]) :
                   /\ outputs[OutputFile(m)][i]["movie_id"] = S(m)
                   /\ outputs[FinalOutputFile(m)].scenes[i]["movie_id"] = S(m)
    /\ (LastBuildWrote /\ lastBuilt \in fresh) =>
           LET ids == sorted(DOMAIN load_scene_timings(timings[lastBuilt]))
               recs == outputs[OutputFile(lastBuilt)]
           IN  /\ Len(recs) = Len(ids)
               /\ \A i \in 1..Len(ids) : recs[i]["scene_id"] = S(ids[i])

\* A build of A merged a fragment carrying the prefixed id A_scene_0001 and
\* a fragment carrying movie_id B.
C7_Witness ==
    /\ LastBuildWrote
    /\ lastBuilt = "A"
    /\ "A" \in fresh
    /\ Len(folders[<<"speakers", "root">>]) = 1
    /\ \E i \in 1..Len(outputs[OutputFile("A")]) :
           /\ outputs[OutputFile("A")][i]["scene_id"] = S("scene_0001")
           /\ outputs[OutputFile("A")][i]["characters"] # L(<<>>)
    /\ \E i \in 1..Len(outputs[OutputFile("A")]) :
           /\ outputs[OutputFile("A")][i]["scene_id"] = S("scene_0002")
           /\ outputs[OutputFile("A")][i]["scene_summary"] = S("bc")

\* The value holds the string x, at the top or inside a list or dict.
Holds(v, x) ==
    \/ v = S(x)
    \/ v.t = "list" /\ \E i \in 1..Len(v.l) :
           \/ v.l[i] = S(x)
           \/ v.l[i].t = "dict" /\ \E k \in DOMAIN v.l[i].d : v.l[i].d[k] = S(x)
    \/ v.t = "dict" /\ \E k \in DOMAIN v.d : v.d[k] = S(x)

\* Some record of the canonical list of the movie holds the string.
CanonicalHolds(m, x) ==
    /\ OutputFile(m) \in DOMAIN outputs
    /\ \E i \in 1..Len(outputs[OutputFile(m)]) :
           \E f \in DOMAIN outputs[OutputFile(m)][i] : Holds(outputs[OutputFile(m)][i][f], x)

Other(m) == CHOOSE o \in Movies : o # m

\* The canonical records of a movie hold no scene id and no value of a
\* fragment file attributed to the other movie.
C8_NoCrossContamination ==
    \A m \in Movies :
        /\ ~CanonicalHolds(m, "only-" \o Other(m))
        /\ ~CanonicalHolds(m, Other(m) \o "_scene_0001")

\* A build changes the output files of no other movie.
C8_FrameOfBuild ==
    \A m \in Movies :
        (clock' = clock + 1 /\ lastBuilt' # m) => OutputsOf(outputs', m) = OutputsOf(outputs, m)

\* C8: movie isolation, as an invariant of the canonical lists together with
\* a frame condition on every build.
C8_Isolation == [](C8_NoCrossContamination) /\ [][C8_FrameOfBuild]_vars

\* Both movies were built from a folder that holds a file of each.
C8_Witness ==
    /\ CanonicalHolds("A", "only-A")
    /\ CanonicalHolds("B", "only-B")
    /\ Len(folders[<<"segments", "root">>]) = 2
    /\ lastBuilt = "B"

\* C9: the canonical list holds one record per scene of the timing table,
\* in the order of the table.
C9_TimelineOrder ==
    (/\ LastBuildWrote
     /\ lastBuilt \in fresh
     /\ timings[lastBuilt] # NoFile)
        => LET tbl  == timings[lastBuilt].scenes
               recs == outputs[OutputFile(lastBuilt)]
           IN  /\ Len(recs) = Len(tbl)
               /\ \A i \in 1..Len(tbl) : recs[i]["scene_id"] = S(tbl[i].scene_id)

(***************************************************************************)
(* Properties of merge_scene                                               *)
(***************************************************************************)
Get(tgt, k) == IF k \in DOMAIN tgt THEN tgt[k] ELSE Null

\* C5: a non-empty string of the target survives the merge of a fragment
\* that carries any other value for the field.
C5_StringFieldKept ==
    [][\A k \in DOMAIN target :
          (target[k].t = "str" /\ target[k].s # "") => Get(target', k) = target[k]]_vars

\* An earlier value is preserved in a later one: a scalar unchanged, a list
\* as a prefix, a dict key by key for its non-null values.
Preserved(old, new) ==
    CASE old.t = "list" ->
            /\ new.t = "list"
            /\ Len(new.l) >= Len(old.l)
            /\ \A i \in 1..Len(old.l) : new.l[i] = old.l[i]
      [] old.t = "dict" ->
            /\ new.t = "dict"
            /\ \A k \in DOMAIN old.d :
                   old.d[k] # Null => (k \in DOMAIN new.d /\ new.d[k] = old.d[k])
      [] OTHER -> new = old

\* C6: every non-null, non-empty value of the target, 0 and false
\* included, is preserved by a merge.
C6_NonDestruction ==
    [][\A k \in DOMAIN target :
          NonEmpty(target[k]) => Preserved(target[k], Get(target', k))]_vars

\* merge_scene leaves scene_id and movie_id of the target alone.
MergeKeepsIdentity ==
    [][\A k \in IDENTITY_KEYS : Get(target', k) = Get(target, k)]_vars

(***************************************************************************)
(* Properties of the fusion                                                *)
(***************************************************************************)
\* The values and confidences the contributions carry for a field, in
\* input order.
Supplied(field) ==
    LET idx == {i \in 1..Len(fsources) : field \in DOMAIN fsources[i].scene}
        RECURSIVE Pick(_)
        Pick(i) ==
            IF i > Len(fsources) THEN <<>>
            ELSE IF i \in idx
                 THEN << [val  |-> fsources[i].scene[field],
                          conf |-> IF "field_confidences" \in DOMAIN fsources[i].scene
                                      /\ field \in DOMAIN fsources[i].scene["field_confidences"].d
                                   THEN fsources[i].scene["field_confidences"].d[field]
                                   ELSE Null] >> \o Pick(i + 1)
                 ELSE Pick(i + 1)
    IN  Pick(1)

ContentFields ==
    (UNION {DOMAIN fsources[i].scene : i \in 1..Len(fsources)})
        \ (IDENTITY_KEYS \cup {"field_confidences", "field_provenance"})

\* c1 is a lower confidence than c2; an absent confidence is the lowest.
LowerConf(c1, c2) ==
    IF c2 = Null THEN FALSE ELSE IF c1 = Null THEN TRUE ELSE c1.n < c2.n

\* Candidate w wins: it has a value, no candidate with a value has a
\* higher confidence, and every earlier candidate with a value has a lower
\* one.
Wins(cs, w) ==
    /\ cs[w].val # Null
    /\ \A j \in 1..Len(cs) : cs[j].val # Null => ~LowerConf(cs[w].conf, cs[j].conf)
    /\ \A j \in 1..(w - 1) : cs[j].val # Null => LowerConf(cs[j].conf, cs[w].conf)

\* C10: for a field whose candidates are scalars, objects or null, the
\* fused value is that of the first candidate of highest confidence among
\* those with a value, and the fused confidence is that confidence.
C10_ScalarPick ==
    fused.ok =>
        \A f \in ContentFields :
            LET cs == Supplied(f)
            IN  (/\ \A i \in 1..Len(cs) : cs[i].val.t # "list"
                 /\ \E i \in 1..Len(cs) : cs[i].val # Null)
                    => \E w \in 1..Len(cs) :
                           /\ Wins(cs, w)
                           /\ fused.merged[f] = cs[w].val
                           /\ cs[w].conf # Null =>
                                  /\ "field_confidences" \in DOMAIN fused.merged
                                  /\ f \in DOMAIN fused.merged["field_confidences"].d
                                  /\ fused.merged["field_confidences"].d[f] = cs[w].conf

\* Two candidates with different values tie at the highest confidence, a
\* null candidate carries a confidence too, and the first of the two won.
C10_Witness ==
    /\ fused.ok
    /\ LET cs == Supplied("x")
       IN  /\ \E i, j \in 1..Len(cs) :
                  /\ i < j
                  /\ cs[i].val # Null /\ cs[j].val # Null /\ cs[i].val # cs[j].val
                  /\ cs[i].conf = N(9) /\ cs[j].conf = N(9)
                  /\ fused.merged["x"] = cs[i].val
           /\ \E k \in 1..Len(cs) : cs[k].val = Null /\ cs[k].conf # Null

(***************************************************************************)
(* Properties of the fusion                                                *)
(***************************************************************************)
\* The fields the loop over sorted(all_keys) fuses.
FusedFields ==
    (UNION {DOMAIN fsources[i].scene : i \in 1..Len(fsources)}) \ IDENTITY_KEYS

\* The contributions that hold the key, in input order.
Holders(field) ==
    {i \in 1..Len(fsources) : field \in DOMAIN fsources[i].scene}

\* C11: whenever a contribution supplies a value other than null for a
\* field, the fused record has the field and its value is not null,
\* whatever the confidences and wherever the null candidates stand.
C11_NullNeverWins ==
    fused.ok =>
        \A f \in FusedFields :
            (\E i \in Holders(f) : fsources[i].scene[f] # Null)
                => /\ f \in DOMAIN fused.merged
                   /\ fused.merged[f] # Null

\* A null candidate with a confidence stands before a candidate that has a
\* value and no confidence, and the value was taken.
C11_Witness ==
    /\ fused.ok
    /\ \E i, j \in Holders("x") :
           /\ i < j
           /\ fsources[i].scene["x"] = Null
           /\ Embedded(fsources[i].scene, "field_confidences", "x", Null) = N(9)
           /\ fsources[j].scene["x"] # Null
           /\ Embedded(fsources[j].scene, "field_confidences", "x", Null) = Null
           /\ fused.merged["x"] = fsources[j].scene["x"]

\* The candidate values of a field, in input order.
RECURSIVE ValuesFrom(_, _)
ValuesFrom(field, i) ==
    IF i > Len(fsources) THEN <<>>
    ELSE (IF field \in DOMAIN fsources[i].scene
          THEN <<fsources[i].scene[field]>> ELSE <<>>) \o ValuesFrom(field, i + 1)

\* The items of the list-valued values, concatenated.
RECURSIVE Concat(_)
Concat(vals) ==
    IF vals = <<>> THEN <<>>
    ELSE (IF Head(vals).t = "list" THEN Head(vals).l ELSE <<>>) \o Concat(Tail(vals))

\* The sequence without the items equal to an earlier one.
RECURSIVE FirstSeen(_)
FirstSeen(items) ==
    IF items = <<>> THEN <<>>
    ELSE LET front == FirstSeen(SubSeq(items, 1, Len(items) - 1))
             last  == items[Len(items)]
         IN  IF \E i \in 1..(Len(items) - 1) : items[i] = last
             THEN front ELSE Append(front, last)

\* The confidences the holders of a field embed for it.
SuppliedConfs(field) ==
    {Embedded(fsources[i].scene, "field_confidences", field, Null) : i \in Holders(field)}
        \ {Null}

GenericListFields ==
    FusedFields \ {"characters", "field_confidences", "field_provenance"}

\* C12: for a field other than characters whose candidates are lists or
\* null, one of them a list, the fused value is the concatenation of the
\* candidate lists without the later duplicates, and the fused confidence
\* is the highest of the supplied confidences.
C12_ListUnion ==
    fused.ok =>
        \A f \in GenericListFields :
            LET vals == ValuesFrom(f, 1)
            IN  (/\ \A i \in 1..Len(vals) : vals[i].t \in {"list", "null"}
                 /\ \E i \in 1..Len(vals) : vals[i].t = "list")
                    => /\ fused.merged[f] = L(FirstSeen(Concat(vals)))
                       /\ SuppliedConfs(f) # {} =>
                              /\ "field_confidences" \in DOMAIN fused.merged
                              /\ f \in DOMAIN fused.merged["field_confidences"].d
                              /\ \A c \in SuppliedConfs(f) :
                                     c.n <= fused.merged["field_confidences"].d[f].n
                              /\ fused.merged["field_confidences"].d[f] \in SuppliedConfs(f)

\* The character items of all contributions, in input order.
AllCharItems == Concat(ValuesFrom("characters", 1))

\* Every candidate of characters is a list of items with a name and a
\* numeric screen_time.
NamedCharacters ==
    /\ "characters" \in FusedFields
    /\ \A i \in Holders("characters") : fsources[i].scene["characters"].t = "list"
    /\ \A k \in 1..Len(AllCharItems) :
           /\ AllCharItems[k].t = "dict"
           /\ {"name", "screen_time"} \subseteq DOMAIN AllCharItems[k].d
           /\ AllCharItems[k].d["name"].t = "str"
           /\ AllCharItems[k].d["name"].s # ""
           /\ AllCharItems[k].d["screen_time"].t = "num"

\* The sum of the screen_time of the items of the name.
RECURSIVE ScreenTimeOf(_, _)
ScreenTimeOf(name, items) ==
    IF items = <<>> THEN 0
    ELSE (IF Head(items).d["name"].s = name THEN Head(items).d["screen_time"].n ELSE 0)
             + ScreenTimeOf(name, Tail(items))

\* C13: the fused characters hold one entry per name that occurs in a
\* contribution, no two entries share a name, and the screen_time of an
\* entry is the sum over the items of its name in all contributions.
C13_CharactersByName ==
    (fused.ok /\ NamedCharacters) =>
        LET out == fused.merged["characters"].l
        IN  /\ {out[i].d["name"].s : i \in 1..Len(out)}
                   = {AllCharItems[k].d["name"].s : k \in 1..Len(AllCharItems)}
            /\ \A i, j \in 1..Len(out) : i # j => out[i].d["name"] # out[j].d["name"]
            /\ \A i \in 1..Len(out) :
                   out[i].d["screen_time"].n = ScreenTimeOf(out[i].d["name"].s, AllCharItems)

\* The confidences of the contributions whose characters list holds the name.
ConfsOfName(name) ==
    {Embedded(fsources[i].scene, "field_confidences", "characters", Null) :
        i \in {h \in Holders("characters") :
                  \E k \in 1..Len(fsources[h].scene["characters"].l) :
                      fsources[h].scene["characters"].l[k].d["name"].s = name}}
        \ {Null}

\* C14: the confidence of characters is a mapping from name to number that
\* has, for every name a contribution with a confidence holds, the highest
\* confidence of the contributions that hold the name, and nothing else.
C14_ConfidencePerName ==
    (fused.ok /\ NamedCharacters /\ SuppliedConfs("characters") # {}
        /\ AllCharItems # <<>>) =>
        /\ "field_confidences" \in DOMAIN fused.merged
        /\ "characters" \in DOMAIN fused.merged["field_confidences"].d
        /\ LET m == fused.merged["field_confidences"].d["characters"]
           IN  /\ m.t = "dict"
               /\ \A k \in 1..Len(AllCharItems) :
                      LET name == AllCharItems[k].d["name"].s
                      IN  IF ConfsOfName(name) = {} THEN name \notin DOMAIN m.d
                          ELSE /\ name \in DOMAIN m.d
                               /\ m.d[name] \in ConfsOfName(name)
                               /\ \A c \in ConfsOfName(name) : c.n <= m.d[name].n
               /\ \A name \in DOMAIN m.d :
                      \E k \in 1..Len(AllCharItems) : AllCharItems[k].d["name"].s = name

\* The provenance list the fused record has for the field.
ProvenanceFor(field) ==
    IF "field_provenance" \in DOMAIN fused.merged
       /\ field \in DOMAIN fused.merged["field_provenance"].d
    THEN fused.merged["field_provenance"].d[field].l
    ELSE <<>>

C16_NoNullConfidence ==
    fused.ok =>
        /\ "field_confidences" \in DOMAIN fused.merged =>
               \A f \in DOMAIN fused.merged["field_confidences"].d :
                   /\ fused.merged["field_confidences"].d[f] # Null
                   /\ f \in FusedFields => SuppliedConfs(f) # {}
        /\ (\A f \in FusedFields : SuppliedConfs(f) = {}) =>
               "field_confidences" \notin DOMAIN fused.merged

\* C17: a call leaves every contribution as it was, and a second call on
\* the same list returns what the first returned.
C17_Unchanged == (fused' # fused \/ fusedAgain' # fusedAgain) => fsources' = fsources

C17_SameOutput == fusedAgain # NotFused => fusedAgain = fused

C17_PureFold == [](C17_SameOutput) /\ [][C17_Unchanged]_vars

\* Two calls were made on contributions whose characters were aggregated,
\* with the screen_time of a name summed over two items.
C17_Witness ==
    /\ fused.ok
    /\ fusedAgain # NotFused
    /\ CharactersAggregated(fsources)
    /\ \E i \in 1..Len(fused.merged["characters"].l) :
           LET e == fused.merged["characters"].l[i].d
           IN  /\ e["screen_time"].n = ScreenTimeOf(e["name"].s, AllCharItems)
               /\ \E k \in 1..Len(AllCharItems) :
                      /\ AllCharItems[k].d["name"] = e["name"]
                      /\ AllCharItems[k].d["screen_time"].n < e["screen_time"].n

(***************************************************************************)
(* Properties of the schema validation                                     *)
(***************************************************************************)
\* The JSON type of a value that is not null.
JsonType(v) ==
    CASE v.t = "str" -> "string"
      [] v.t = "num" -> "number"
      [] v.t = "bool" -> "boolean"
      [] v.t = "list" -> "array"
      [] v.t = "dict" -> "object"
      [] OTHER -> "null"

\* A value that is no object, an object without an identity field, or an
\* object with a declared field of another type or with an item of another
\* type than the one declared for the items of the field.
MalformedScene(v) ==
    \/ v.t # "dict"
    \/ /\ v.t = "dict"
       /\ \/ {"scene_id", "movie_id"} \ DOMAIN v.d # {}
          \/ \E f \in DOMAIN v.d :
                /\ SchemaType(f) # "undeclared"
                /\ v.d[f] # Null
                /\ \/ JsonType(v.d[f]) # SchemaType(f)
                   \/ /\ v.d[f].t = "list"
                      /\ SchemaItemType(f) # "undeclared"
                      /\ \E i \in 1..Len(v.d[f].l) :
                             /\ v.d[f].l[i] # Null
                             /\ JsonType(v.d[f].l[i]) # SchemaItemType(f)

\* C18: validate_scene returns a pair for a value of any shape, and for a
\* malformed value the pair is not valid and holds at least one message.
C18_NeverRaises ==
    (vout # NotRun) =>
        /\ ~vout.raised
        /\ vout.valid = (vout.msgs = {})
        /\ MalformedScene(vscene) => (~vout.valid /\ vout.msgs # {})

\* The validator has returned for a value that is no container.
C18_Witness ==
    /\ vout # NotRun
    /\ vscene.t \in {"null", "num", "bool"}
    /\ ~vout.raised /\ ~vout.valid

\* C19: in strict mode enforce_scene raises exactly when validate_scene
\* reports not valid; otherwise it returns the pair of validate_scene.
C19_Enforce ==
    (eout # NotRun) =>
        /\ eout.raised = (schemaStrict /\ ~validate_scene(vscene).valid)
        /\ ~eout.raised => eout = validate_scene(vscene)

\* Strict mode has raised for a record without scene_id.
C19_Witness ==
    /\ eout # NotRun
    /\ schemaStrict
    /\ vscene.t = "dict" /\ "scene_id" \notin DOMAIN vscene.d
    /\ eout.raised

\* A number between 0 and 1.
InUnit(v) == v.t = "num" /\ v.n >= 0 /\ v.n <= 10

\* The value is one of the alternatives: a number within the range, or a
\* map from name to number within the range.
MatchesAlternative(v) ==
    \/ InUnit(v)
    \/ v.t = "dict" /\ \A name \in DOMAIN v.d : InUnit(v.d[name])

\* The same, where null stands for a number or a map.
MatchesNullable(v) ==
    \/ v = Null
    \/ InUnit(v)
    \/ v.t = "dict" /\ \A name \in DOMAIN v.d : (v.d[name] = Null \/ InUnit(v.d[name]))

\* The validator has run on a record whose field_confidences is a map.
ConfidencesChecked ==
    /\ vout # NotRun
    /\ vscene.t = "dict"
    /\ "field_confidences" \in DOMAIN vscene.d
    /\ vscene.d["field_confidences"].t = "dict"

\* The validator has complained about the entry k of field_confidences.
Rejected(k) == \E msg \in vout.msgs : msg.field = "field_confidences" /\ msg.at = k

InvalidScenes(final_scenes) ==
    {i \in 1..Len(final_scenes) : ~validate_scene(D(final_scenes[i])).valid}

\* C21: when the schema check of a build raises in strict mode, every scene
\* of the canonical list has been validated and the error carries the
\* messages of all invalid scenes.
C21_EscalatesAfterAllScenes ==
    (LastBuildWrote /\ lastCheck.raised) =>
        /\ lastCheck.checked = Len(outputs[OutputFile(lastBuilt)])
        /\ lastCheck.reported = InvalidScenes(outputs[OutputFile(lastBuilt)])

\* The phase maps of a build of the movie from the folders as they are.
PhaseMaps(m) == [i \in 1..Len(PHASES) |-> load_folder_as_map(folders, PHASES[i], m)]

\* The folder load_folder_as_map lists for a phase and a movie.
SearchFolder(phase, m) ==
    IF folders[<<phase, m>>] # <<>> THEN folders[<<phase, m>>] ELSE folders[<<phase, "root">>]

\* The movie inferred for a fragment file: the movie_id of the document or
\* of its first list item when set, else the filename text before "_scene_",
\* else none.
InferredMovie(file) ==
    LET c == file.content
        explicit ==
            CASE c.kind = "dict" -> ObjGet(c.obj, "movie_id")
              [] c.kind = "list" /\ c.items # <<>> /\ c.items[1].isdict ->
                    ObjGet(c.items[1].obj, "movie_id")
              [] OTHER -> Null
    IN  IF explicit.t = "str" /\ explicit.s # "" THEN explicit.s ELSE StemMovie(file.stem)

\* The items of a fragment file that carry a scene id.
KeyedItems(file) ==
    LET c == file.content
    IN  CASE c.kind = "dict" -> IF Falsy(ObjGet(c.obj, "scene_id")) THEN {} ELSE {c.obj}
          [] c.kind = "list" ->
                {c.items[i].obj : i \in {j \in 1..Len(c.items) :
                                            ~Falsy(ObjGet(c.items[j].obj, "scene_id"))}}
          [] OTHER -> {}

\* C25: the phase map of movie M holds an entry for every item of a file
\* whose inferred movie is absent or M, and no item of any other file.
C25_AcceptedIffInferredMovie ==
    LastBuildWrote =>
        \A p \in 1..Len(PHASES) :
            LET dm == PhaseMaps(lastBuilt)[p].map
                fs == SearchFolder(PHASES[p], lastBuilt)
            IN  \A i \in 1..Len(fs) : \A item \in KeyedItems(fs[i]) :
                    IF InferredMovie(fs[i]) \in {NoneMovie, lastBuilt}
                    THEN local_sid(ObjGet(item, "scene_id").s, InferredMovie(fs[i])) \in DOMAIN dm
                    ELSE \A sid \in DOMAIN dm : dm[sid] # item

\* Movie A was built from a file named for B whose document names A, and
\* the canonical scene carries the value of that file.
C25_Witness ==
    /\ LastBuildWrote
    /\ lastBuilt = "A"
    /\ \E i \in 1..Len(folders[<<"visuals", "root">>]) :
           /\ StemMovie(folders[<<"visuals", "root">>][i].stem) = "B"
           /\ InferredMovie(folders[<<"visuals", "root">>][i]) = "A"
    /\ \E i \in 1..Len(outputs[OutputFile("A")]) :
           outputs[OutputFile("A")][i]["scene_summary"] = S("early")

\* The fields the template leaves empty for the phases: no identity field,
\* no timing field, no timestamp, no list.
ScalarFields ==
    (TemplateStrFields \cup TemplateNoneFields)
        \ ({"movie_id", "title_name"} \cup TimingFields)

\* The phases that supply a non-null, non-empty value for a field of a scene.
Suppliers(maps, sid, f) ==
    {p \in 1..Len(PHASES) :
        sid \in DOMAIN maps[p].map /\ NonEmpty(ObjGet(maps[p].map[sid], f))}

\* C26: every scalar field of a canonical scene holds the value of the first
\* phase, in the order of PHASES, that supplies a value for it.
C26_FirstPhaseWins ==
    (LastBuildWrote /\ lastStatus = "ok") =>
        \A i \in 1..Len(outputs[OutputFile(lastBuilt)]) : \A f \in ScalarFields :
            LET scene == outputs[OutputFile(lastBuilt)][i]
                maps == PhaseMaps(lastBuilt)
                sup == Suppliers(maps, scene["scene_id"].s, f)
            IN  sup # {} =>
                    scene[f] = ObjGet(maps[CHOOSE p \in sup : \A q \in sup : p <= q]
                                          .map[scene["scene_id"].s], f)

\* The sequence in the opposite order.
Reversed(seq) == [i \in 1..Len(seq) |-> seq[Len(seq) + 1 - i]]

\* The folders with every listing in the opposite order.
Relisted == [k \in FolderKeys |-> Reversed(folders[k])]

\* C29: a build from the same files listed in another order yields the
\* same canonical list.
C29_ListingOrderIrrelevant ==
    (LastBuildWrote /\ lastBuilt \in fresh) =>
        StripTimestamps(CanonicalOf(
            main(Relisted, timings, outputs, lastBuilt, schemaStrict, clock).files, lastBuilt))
          = StripTimestamps(CanonicalOf(outputs, lastBuilt))

\* The list followed by the items of v, in order, that are equal to no item
\* already in it.
RECURSIVE ExtendByEquality(_, _)
ExtendByEquality(out, v) ==
    IF v = <<>> THEN out
    ELSE IF \E i \in 1..Len(out) : out[i] = Head(v)
         THEN ExtendByEquality(out, Tail(v))
         ELSE ExtendByEquality(Append(out, Head(v)), Tail(v))

\* C27: merging a list into a list field gives the source list when the
\* target's list is empty, and otherwise the target's list followed by the
\* source items equal to no item already present, 1 and "1" being distinct.
C27_ListMergeByEquality ==
    [][\A i \in 1..Len(msrc') :
          LET k == msrc'[i][1]
              v == msrc'[i][2]
          IN  (k \notin IDENTITY_KEYS /\ v.t = "list" /\ Get(target, k).t = "list" /\ ~mraised')
                  => Get(target', k) =
                         IF Get(target, k).l = <<>> THEN v
                         ELSE L(ExtendByEquality(Get(target, k).l, v.l))]_vars

\* The names of the two metadata maps of a fused record.
RESERVED_KEYS == {"field_confidences", "field_provenance"}

\* The keys of a metadata map of a fused record.
MetaKeys(rec, meta) == IF meta \in DOMAIN rec THEN DOMAIN rec[meta].d ELSE {}

\* C28: every key of the fused field_confidences and field_provenance is a
\* content field of some contribution, never one of the two reserved
\* names, and a confidence is recorded for fields with a fused value only.
C28_MetadataKeys ==
    (fused # NotFused /\ fused.ok) =>
        /\ \A meta \in RESERVED_KEYS :
               MetaKeys(fused.merged, meta) \subseteq ContentFields
        /\ \A k \in MetaKeys(fused.merged, "field_confidences") :
               k \in DOMAIN fused.merged /\ fused.merged[k] # Null

(***************************************************************************)
(* Specification of the in-memory pipeline of one scene: the stages run on *)
(* the input scene and their outputs are fused.                            *)
(***************************************************************************)
\* rec.setdefault(meta, {}); rec[meta][field] = v
SetMeta(rec, meta, field, v) ==
    SetKey(rec, meta, D(SetKey(IF meta \in DOMAIN rec THEN rec[meta].d ELSE EmptyDict, field, v)))

\* The lists of a provenance map flattened without repetition, the keys
\* taken in sorted order.
FlattenProv(prov_map) ==
    LET ks == SortedKeys(DOMAIN prov_map)
        RECURSIVE Flat(_, _)
        Flat(i, out) ==
            IF i > Len(ks) THEN out ELSE Flat(i + 1, AppendNew(out, prov_map[ks[i]].l))
    IN  Flat(1, <<>>)

\* max(conf_map.values())
MaxValue(conf_map) ==
    N(CHOOSE c \in {conf_map[k].n : k \in DOMAIN conf_map} :
          \A k \in DOMAIN conf_map : conf_map[k].n <= c)

\* {"scene_id": base_scene.get("scene_id"), "movie_id": base_scene.get("movie_id")}
IdentOf(base_scene) == [f \in IDENTITY_KEYS |-> Get(base_scene, f)]

\* The record of a flag stage: the flags, the highest of the stage's
\* confidences and the flattened provenance, both under the name of the
\* flags field.
FlagScene(base_scene, out, flags) ==
    LET s0 == SetKey(IdentOf(base_scene), flags,
                     IF flags \in DOMAIN out THEN out[flags] ELSE D(EmptyDict))
        confs == Get(out, "field_confidences")
        provs == Get(out, "field_provenance")
        s1 == IF Falsy(confs) THEN s0
              ELSE SetMeta(s0, "field_confidences", flags, MaxValue(confs.d))
    IN  IF Falsy(provs) THEN s1
        ELSE SetMeta(s1, "field_provenance", flags, L(FlattenProv(provs.d)))

\* The face/actor stage did not run or failed.
NoCharacters == [kind |-> "none"]

\* The list process_video returned.
Found(items) == [kind |-> "list", items |-> items]

\* The named items of the result of the face/actor stage.
Named(characters_result) ==
    {i \in 1..Len(characters_result) : ~Falsy(Get(characters_result[i], "name"))}

\* The record of the face/actor stage: the characters, a map from name to
\* confidence under field_confidences["characters"], and the flattened
\* provenance.
CharScene(base_scene, characters_result) ==
    LET named == Named(characters_result)
        names == {characters_result[i]["name"].s : i \in named}
        last(n) == CHOOSE i \in named :
                       /\ characters_result[i]["name"].s = n
                       /\ \A j \in named : characters_result[j]["name"].s = n => j <= i
        conf_map == [n \in names |-> Get(characters_result[last(n)], "confidence")]
        prov_map == [n \in names |->
                        IF "provenance" \in DOMAIN characters_result[last(n)]
                        THEN characters_result[last(n)]["provenance"] ELSE L(<<>>)]
        s0 == SetKey(IdentOf(base_scene), "characters",
                     L([i \in 1..Len(characters_result) |-> D(characters_result[i])]))
        s1 == IF names = {} THEN s0
              ELSE SetMeta(s0, "field_confidences", "characters", D(conf_map))
    IN  IF names = {} THEN s1
        ELSE SetMeta(s1, "field_provenance", "characters", L(FlattenProv(prov_map)))

\* The record of the summarizer: its two outputs and its metadata maps.
VlmScene(base_scene, vlm_out) ==
    LET s0 == [f \in IDENTITY_KEYS \cup {"scene_summary", "keywords_auto_generated"} |->
                  IF f \in IDENTITY_KEYS THEN Get(base_scene, f) ELSE Get(vlm_out, f)]
        metas == {m \in {"field_confidences", "field_provenance"} : ~Falsy(Get(vlm_out, m))}
    IN  [f \in DOMAIN s0 \cup metas |-> IF f \in metas THEN vlm_out[f] ELSE s0[f]]

\* The contributions run_scene_pipeline hands to the fusion, for the input
\* scene and the outputs of the stages; `face` is what process_video
\* returns, or NoCharacters when it raises.
PipelineSources(scene, safety_out, vq_out, face, vlm_out) ==
    LET characters_result ==
            IF Falsy(Get(scene, "video_path")) THEN NoCharacters ELSE face
        pre_sources ==
            IF characters_result = NoCharacters THEN <<>>
            ELSE << [scene |-> CharScene(scene, characters_result.items),
                     source |-> S("face_actor_pipeline")] >>
    IN  << [scene |-> scene, source |-> S("input_scene")],
           [scene |-> FlagScene(scene, safety_out, "safety_flags"), source |-> S("scene_safety")],
           [scene |-> FlagScene(scene, vq_out, "quality_flags"), source |-> S("visual_quality")] >>
        \o pre_sources
        \o << [scene |-> VlmScene(scene, vlm_out), source |-> S("vlm_summary")] >>

\* run_scene_pipeline(scene)
run_scene_pipeline(scene, safety_out, vq_out, face, vlm_out) ==
    merge_scenes_from_sources(PipelineSources(scene, safety_out, vq_out, face, vlm_out))

\* The input scenes: a movie, with or without a video path, with or without
\* characters of its own.
InputScenes ==
    {[f \in {"scene_id", "movie_id"} \cup extra |->
         CASE f = "scene_id" -> S("scene_0001")
           [] f = "movie_id" -> S(m)
           [] f = "video_path" -> S(v)
           [] f = "characters" -> L(<<Char("Alice", 5)>>)] :
        m \in Movies, v \in {"", "vid.mp4"},
        extra \in SUBSET {"video_path", "characters"}}

\* A stage output of the shape the analyzers return: the flags, a
\* confidence and a provenance list for every flag.
StageOut(flags, names, conf, prov) ==
    [f \in {flags, "field_confidences", "field_provenance"} |->
        CASE f = flags -> D([n \in names |-> B(FALSE)])
          [] f = "field_confidences" -> D([n \in names |-> N(conf[n])])
          [] f = "field_provenance" -> D([n \in names |-> L(<<S(prov[n])>>)])]

SafetyOuts ==
    {StageOut("safety_flags", {"violence", "strong_language"},
              [n \in {"violence", "strong_language"} |-> 1],
              [n \in {"violence", "strong_language"} |-> "mock_scene_safety"]),
     StageOut("safety_flags", {"violence", "strong_language"},
              [n \in {"violence", "strong_language"} |-> IF n = "violence" THEN 1 ELSE 9],
              [n \in {"violence", "strong_language"} |->
                  IF n = "violence" THEN "mock_scene_safety" ELSE "dialogue_profanity_detector"])}

VqOuts ==
    {StageOut("quality_flags", {"black_frames_detected"},
              [n \in {"black_frames_detected"} |-> 1],
              [n \in {"black_frames_detected"} |-> "mock_visual_quality"]),
     [f \in {"quality_flags"} |-> D(EmptyDict)]}

VlmOuts ==
    {[f \in {"scene_summary", "keywords_auto_generated", "field_confidences", "field_provenance"} |->
         CASE f = "scene_summary" -> S("bc")
           [] f = "keywords_auto_generated" -> L(<<>>)
           [] f = "field_confidences" -> D([k \in {"scene_summary.fallback"} |-> N(2)])
           [] f = "field_provenance" -> D([k \in {"scene_summary"} |-> L(<<S("vlm_fallback")>>)])],
     [f \in {"scene_summary", "keywords_auto_generated"} |->
         IF f = "scene_summary" THEN S("a") ELSE L(<<S("a")>>)]}

\* An item of the result of process_video.
FaceChar(name, conf) ==
    [k \in {"name", "screen_time", "confidence", "provenance"} |->
        CASE k = "name" -> S(name)
          [] k = "screen_time" -> N(80)
          [] k = "confidence" -> N(conf)
          [] k = "provenance" -> L(<<S("face_tracker")>>)]

FaceResults ==
    {NoCharacters} \cup
    {Found(r) : r \in {<<>>, <<FaceChar("unknown", -10)>>, <<FaceChar("Lead", 10)>>,
                       <<FaceChar("Lead", 10), FaceChar("unknown", -10)>>}}

LocalInit == FusionInit

\* One call of run_scene_pipeline.
RunScenePipeline(scene, safety_out, vq_out, face, vlm_out) ==
    /\ fused = NotFused
    /\ fsources = <<>>
    /\ fsources' = PipelineSources(scene, safety_out, vq_out, face, vlm_out)
    /\ fused' = run_scene_pipeline(scene, safety_out, vq_out, face, vlm_out)
    /\ UNCHANGED <<fusedAgain, mvars, bvars, svars, ivars, pvars>>

LocalNext ==
    \E scene \in InputScenes, safety_out \in SafetyOuts, vq_out \in VqOuts,
       face \in FaceResults, vlm_out \in VlmOuts :
        RunScenePipeline(scene, safety_out, vq_out, face, vlm_out)

SpecLocal == LocalInit /\ [][LocalNext]_vars

\* The names the face/actor stage found for the scene of the last run.
FoundNames ==
    UNION {{fsources[i].scene["characters"].l[k].d["name"].s :
               k \in {j \in 1..Len(fsources[i].scene["characters"].l) :
                          ~Falsy(Get(fsources[i].scene["characters"].l[j].d, "name"))}} :
              i \in {h \in 1..Len(fsources) : fsources[h].source = S("face_actor_pipeline")}}

\* C23: a run on a scene with a video path whose face/actor stage found a
\* named character completes, the fused characters hold an entry for every
\* such name, and field_confidences["characters"] is a map over names.
C23_FaceCharactersFused ==
    (fsources # <<>> /\ ~Falsy(Get(fsources[1].scene, "video_path")) /\ FoundNames # {}) =>
        /\ fused.ok
        /\ \A n \in FoundNames :
               \E k \in 1..Len(fused.merged["characters"].l) :
                   Get(fused.merged["characters"].l[k].d, "name") = S(n)
        /\ fused.merged["field_confidences"].d["characters"].t = "dict"

(***************************************************************************)
(* Specification of the scene ids of a fragment: an upstream phase writes  *)
(* one fragment file of a movie and load_folder_as_map reads it.           *)
(***************************************************************************)
IdMovies == {"A", "B", "A_B"}

LocalIds == {"scene_0001", "scene_0002", "scene_0010"}

\* How a fragment file tells its movie: by its name, by a movie_id, by
\* both, or not at all.
Attributions == {"stem", "movie_id", "both", "none"}

\* A fragment file of the movie for the local scene id.
FragmentOf(movie, sid, attribution, qualified, aslist) ==
    LET obj == << <<"scene_id", S(IF qualified THEN normalize_scene_id(sid, movie) ELSE sid)>> >>
                   \o (IF attribution \in {"movie_id", "both"}
                       THEN << <<"movie_id", S(movie)>> >> ELSE <<>>)
                   \o << <<"scene_summary", S("bc")>> >>
    IN  [stem |-> IF attribution \in {"stem", "both"}
                  THEN normalize_scene_id(sid, movie) ELSE "frag",
         content |-> IF aslist
                     THEN [kind |-> "list", items |-> << [isdict |-> TRUE, obj |-> obj] >>]
                     ELSE [kind |-> "dict", obj |-> obj]]

IdsInit == MergeIdle /\ BuildIdle /\ FusionIdle /\ SchemaIdle /\ IdsIdle /\ PipelineIdle

\* An upstream phase writes the fragment file.
WriteFragment(movie, sid, attribution, qualified, aslist) ==
    /\ fragFile = NoFile
    /\ fragMovie' = movie
    /\ fragLocal' = sid
    /\ fragFile' = FragmentOf(movie, sid, attribution, qualified, aslist)
    /\ UNCHANGED <<fragMap, mvars, bvars, fvars, svars, pvars>>

\* load_folder_as_map on the folder that holds the file, for the movie.
LoadFragment ==
    /\ fragFile # NoFile
    /\ fragMap = NoMap
    /\ \E r \in {LoadFile([x \in {} |-> Null], fragFile, fragMovie)} :
           fragMap' = [kind |-> "map", ok |-> r.ok, keys |-> DOMAIN r.map]
    /\ UNCHANGED <<fragMovie, fragLocal, fragFile, mvars, bvars, fvars, svars, pvars>>

IdsNext ==
    \/ \E movie \in IdMovies, sid \in LocalIds, attribution \in Attributions,
          qualified \in BOOLEAN, aslist \in BOOLEAN :
           WriteFragment(movie, sid, attribution, qualified, aslist)
    \/ LoadFragment

SpecIds == IdsInit /\ [][IdsNext]_vars

\* C24: a fragment attributed to its movie M is keyed under its local id L,
\* whether its scene_id is L or the movie-qualified id M_L, and for every
\* movie name localizing the qualified id of L gives L back.
C24_RoundTrip ==
    (fragMap # NoMap /\ InferredMovie(fragFile) = fragMovie) =>
        /\ fragMap.keys = {fragLocal}
        /\ local_sid(normalize_scene_id(fragLocal, fragMovie), fragMovie) = fragLocal
        /\ local_sid(fragLocal, fragMovie) = fragLocal

(***************************************************************************)
(* Specification of the orchestrator: a run of run_pipeline.main for a     *)
(* movie, with or without --force, runs the steps of STEPS in order.       *)
(***************************************************************************)
STEPS ==
    <<"src.phase_a.scene_segmentation",
      "src.phase_b.scene_assets_extractor",
      "src.phase_c.scene_actor_linker",
      "src.scene_visual_analyzer",
      "src.scene_object_analyzer",
      "src.scene_context_analyzer",
      "src.scene_dialogue_extractor",
      "src.scene_speaker_diarizer",
      "src.scene_dialogue_speaker_mapper",
      "src.scene_speaker_actor_mapper",
      "src.scene_dialogue_merger",
      "src.scene_profanity_detector",
      "src.scene_emotion_analyzer",
      "src.scene_emotion_merger",
      "src.scene_semantic_emotion_analyzer",
      "src.scene_content_safety",
      "src.scene_master_merger",
      "src.scene_semantic_emotion_merger",
      "src.scene_audio_intelligence",
      "src.scene_audio_intelligence_merger",
      "src.scene_meta_intelligence",
      "src.scene_narrative_structure",
      "src.scene_summarizer",
      "src.scene_enrichment",
      "src.scene_character_merger">>

\* An output file or folder: the path is dir/owner followed by the suffix;
\* a folder has the empty suffix.
Artifact(dir, owner, suffix) == [dir |-> dir, owner |-> owner, suffix |-> suffix]

\* The files and folders a step creates for the movie; a step that only
\* rewrites files of earlier steps creates none.
Writes(step, movie) ==
    CASE step = "src.phase_a.scene_segmentation" ->
            {Artifact("outputs/scenes", movie, "_scenes.json")}
      [] step = "src.phase_b.scene_assets_extractor" ->
            {Artifact("outputs/scene_assets", movie, "")}
      [] step = "src.phase_c.scene_actor_linker" ->
            {Artifact("outputs/scene_actor_index", movie, "_scene_actors.json")}
      [] step = "src.scene_visual_analyzer" ->
            {Artifact("outputs/scene_visual_index", movie, "_scene_visuals.json")}
      [] step = "src.scene_object_analyzer" ->
            {Artifact("outputs/scene_object_index", movie, "_scene_objects.json")}
      [] step = "src.scene_context_analyzer" ->
            {Artifact("outputs/scene_context_index", movie, "_scene_context.json")}
      [] step = "src.scene_dialogue_extractor" ->
            {Artifact("outputs/scene_dialogue", movie, "")}
      [] step = "src.scene_speaker_diarizer" ->
            {Artifact("outputs/scene_speakers", movie, "")}
      [] step = "src.scene_emotion_analyzer" ->
            {Artifact("outputs/scene_emotion", movie, "")}
      [] step = "src.scene_semantic_emotion_analyzer" ->
            {Artifact("outputs/scene_emotion", movie, "_semantic_emotions.json")}
      [] step = "src.scene_content_safety" ->
            {Artifact("outputs/scene_index", movie, "_FINAL_WITH_SAFETY.json")}
      [] step = "src.scene_master_merger" ->
            {Artifact(OutputFile(movie)[1], movie, OutputFile(movie)[3]),
             Artifact(ProvenancePath(movie)[1], movie, ProvenancePath(movie)[3]),
             Artifact(FinalOutputFile(movie)[1], movie, FinalOutputFile(movie)[3])}
      [] step = "src.scene_audio_intelligence" ->
            {Artifact("outputs/scene_audio", movie, "")}
      [] OTHER -> {}

\* The fixed candidates of clean_movie_outputs.
CleanCandidates(movie) ==
    {Artifact("outputs/scenes", movie, "_scenes.json"),
     Artifact("outputs/scene_assets", movie, ""),
     Artifact("outputs/scene_dialogue", movie, ""),
     Artifact("outputs/scene_actor_index", movie, "_scene_actors.json"),
     Artifact("outputs/scene_visual_index", movie, "_scene_visuals.json"),
     Artifact("outputs/scene_object_index", movie, "_scene_objects.json"),
     Artifact("outputs/scene_context", movie, "_scene_context.json"),
     Artifact("outputs/scene_speakers", movie, ""),
     Artifact("outputs/scene_emotion", movie, "")}

\* fname.startswith(f"{movie}_") for the name of a file: the tokens of the
\* movie are followed by a further token.
NameStartsWith(a, movie) ==
    /\ a.suffix # ""
    /\ Len(Tokens(movie)) <= Len(Tokens(a.owner))
    /\ SubSeq(Tokens(a.owner), 1, Len(Tokens(movie))) = Tokens(movie)

\* clean_movie_outputs(movie): what exists afterwards.
clean_movie_outputs(existing, movie) ==
    existing \ (CleanCandidates(movie)
                    \cup {a \in existing : a.dir = "outputs/scene_index" /\ NameStartsWith(a, movie)})

PipelineInit == MergeIdle /\ BuildIdle /\ FusionIdle /\ SchemaIdle /\ IdsIdle /\ PipelineIdle

\* main up to the loop over STEPS: --force cleans the outputs of the movie.
StartRun(movie, force) ==
    /\ pmovie = NoneMovie
    /\ nruns < MaxRuns
    /\ pmovie' = movie
    /\ forced' = force
    /\ ran' = <<>>
    /\ nruns' = nruns + 1
    /\ artifacts' = IF force THEN clean_movie_outputs(artifacts, movie) ELSE artifacts
    /\ UNCHANGED <<mvars, bvars, fvars, svars, ivars>>

\* One iteration of the loop over STEPS.
RunStep ==
    /\ pmovie # NoneMovie
    /\ Len(ran) < Len(STEPS)
    /\ ran' = Append(ran, STEPS[Len(ran) + 1])
    /\ artifacts' = artifacts \cup Writes(STEPS[Len(ran) + 1], pmovie)
    /\ UNCHANGED <<pmovie, forced, nruns, mvars, bvars, fvars, svars, ivars>>

\* main returns after the last step.
FinishRun ==
    /\ pmovie # NoneMovie
    /\ Len(ran) = Len(STEPS)
    /\ pmovie' = NoneMovie
    /\ UNCHANGED <<artifacts, ran, forced, nruns, mvars, bvars, fvars, svars, ivars>>

PipelineNext ==
    \/ \E movie \in IdMovies, force \in BOOLEAN : StartRun(movie, force)
    \/ RunStep
    \/ FinishRun

SpecPipeline == PipelineInit /\ [][PipelineNext]_vars

\* C22: the master merger is the final step of a run: once it has run, no
\* other step runs.
C22_MasterMergerLast ==
    \A i \in 1..Len(ran) : ran[i] = "src.scene_master_merger" => i = Len(ran)

\* C30: a run started with --force for movie M removes every artifact of
\* M and no artifact of another movie.
C30_CleanRemovesOnlyOwn ==
    [][(pmovie = NoneMovie /\ pmovie' # NoneMovie /\ forced') =>
          /\ \A a \in artifacts : a.owner = pmovie' => a \notin artifacts'
          /\ \A a \in artifacts : a.owner # pmovie' => a \in artifacts']_vars
====
